---- MODULE Spec2Model ----
(***************************************************************************)
(* A model of the crypto technical-analysis and alerting engine:           *)
(*   - the alert evaluator (alerts/alert_manager.py) over the alert_rules  *)
(*     and alert_history collections,                                      *)
(*   - the query engine (alerts/query_engine.py) over the candle store,    *)
(*   - the ingestion pipeline (data_collector/ccxt_collector.py) and the   *)
(*     candle store (database/mongo_client.py).                            *)
(* Time is counted in half hours.  Collections are sequences of documents  *)
(* in insertion order, so that duplicate documents can be told apart.      *)
(***************************************************************************)
EXTENDS Integers, Sequences, FiniteSets, TLC

VARIABLES
    now,        \* datetime.utcnow(), in half hours
    rules,      \* the alert_rules collection
    history,    \* the alert_history collection
    klines,     \* the candle collection
    pc,         \* per evaluator: "idle" or "checking" (inside check_alert_rules)
    snapshot,   \* per evaluator: active_rules as loaded by list_alert_rules
    idx,        \* per evaluator: position of the for loop over active_rules
    tickLog,    \* per evaluator: what the current tick did with each rule so far
    histStart,  \* per evaluator: Len(history) when the current tick loaded its rules
    performed,  \* per rule id: number of completed rule updates made by _trigger_alert
    market,     \* the closes of the bars the exchange holds; bar k opens at time k
    lastBatch,  \* the bars the last incremental tick was given, while nothing else
                \* has written to the candle store since
    cpc,        \* per collector: its position in its loop over the fetched bars;
                \* per job: "idle", or "loaded" once it holds its historical_data
    cbatch,     \* per collector: processed_data, the bars it fetched; per job:
                \* historical_data, the bars it loaded
    cpos,       \* per collector: index in cbatch of the bar it is storing
    cmatch,     \* per collector: what update_one's query matched (0: nothing)
    request,    \* the last QueryRequest given to execute_query (<<>>: none yet)
    response,   \* the QueryResult it returned
    created,    \* the number of rule ids create_alert_rule has issued
    lastCall,   \* the last call of the rule registry or of the retention pass,
                \* with what it was given and what it returned (<<>>: none yet)
    is_monitoring,  \* AlertManager.is_monitoring
    monitor_task    \* AlertManager.monitor_task: "none", or the task of
                    \* _monitor_loop: "scheduled", "cancelled"

alertVars == <<now, rules, history, pc, snapshot, idx, tickLog, histStart, performed>>
ingestVars == <<market, lastBatch, cpc, cbatch, cpos, cmatch>>
queryVars == <<request, response>>
serviceVars == <<created, lastCall, is_monitoring, monitor_task>>
vars == <<now, rules, history, klines, pc, snapshot, idx, tickLog, histStart, performed,
          market, lastBatch, cpc, cbatch, cpos, cmatch, request, response,
          created, lastCall, is_monitoring, monitor_task>>

----------------------------------------------------------------------------
(* Bounds of the model *)

MaxRules == 2
MaxTriggers == 2
MaxBars == 2
MaxRulesConc == 1
MaxNewBars == 1

(* Program constants *)

HourUnits == 2
DayUnits == 48
ListLimit == 100
CheckLimit == 1
HistoricalLimit == 60
LatestLimit == 5
MinBars == 50
IndicatorWindow == 60
SignalWindow == 100
MaPeriods == {5, 10, 20, 50}
\* The bar at which the exchange listed ETH
EthListedAt == 60

NoTime == -1

\* timedelta(days=30) of the retention pass: thirty days of DayUnits each
RetentionUnits == 1440
\* TIMEFRAMES
Timeframes == {"5m", "15m", "1h", "1d"}
\* The instants of the retention pass: when the first two bars have opened, thirty
\* days after the second bar, and later
RetentionInstants == {2, RetentionUnits + 2, RetentionUnits + 3}

Evaluators == {1, 2}
\* SYMBOLS, as SYMBOL_MAPPING names them
Symbols == <<"BTC", "ETH">>
Collectors == {"backfill", "latest"}
\* The scheduler's indicator_calculation and signal_detection jobs
Jobs == {"indicators", "signals"}
RuleIds == 1..MaxRules

Frequencies == {"once", "every_time", "hourly", "daily"}
\* The frequencies of the rule two evaluators share: the one that may trigger
\* once, and the one that may trigger at every tick
ConcFrequencies == {"once", "every_time"}
RuleTimeframes == {<<"1h">>}
FeedTimeframes == {"1h"}
Closes == {1, 2}
\* The instants at which the clock is read: around the hour and around the day
Instants == {0, HourUnits, DayUnits - 1, DayUnits}
Later(t) == {u \in Instants : u > t}
\* The clock when read again a little later: unchanged, or the next instant
Soon(t) == {t} \cup {u \in Later(t) : \A w \in Later(t) : u <= w}

----------------------------------------------------------------------------
(* Generic helpers over sequences *)

Range(s) == {s[i] : i \in DOMAIN s}

Reverse(s) == [k \in DOMAIN s |-> s[Len(s) + 1 - k]]

RECURSIVE CountIn(_, _, _)
CountIn(s, from, rid) ==
    IF from > Len(s) THEN 0
    ELSE (IF s[from].rule_id = rid THEN 1 ELSE 0) + CountIn(s, from + 1, rid)

RECURSIVE SumTo(_, _)
SumTo(f, n) == IF n = 0 THEN 0 ELSE f[n] + SumTo(f, n - 1)

\* The leaves a query is built from
Leaf(field, operator, value) == [field |-> field, operator |-> operator, value |-> value]
QueryLeaves ==
    {Leaf("close", "gt", 1), Leaf("close", "lte", 1),
     Leaf("symbol", "eq", "BTC"), Leaf("timeframe", "eq", "1d"),
     Leaf("rsi", "gt", 50), Leaf("rsi", "lt", 50), Leaf("rsi", "eq", 50),
     Leaf("rsi", "ne", 50), Leaf("rsi", "between", <<30, 70>>),
     Leaf("ma.ma_5", "gte", 1), Leaf("ma.ma_5", "ne", 1)}
\* The condition trees of the requests
QueryConditions ==
    QueryLeaves
    \cup {[operator |-> "and", conditions |-> <<Leaf("symbol", "eq", "BTC")>>],
          [operator |-> "and",
           conditions |-> <<Leaf("symbol", "eq", "BTC"), Leaf("close", "lte", 1)>>],
          [operator |-> "or",
           conditions |-> <<Leaf("close", "gt", 1), Leaf("rsi", "gt", 50)>>],
          [operator |-> "and",
           conditions |-> <<[operator |-> "or",
                             conditions |-> <<Leaf("close", "gt", 1),
                                              Leaf("close", "lte", 1)>>],
                            Leaf("rsi", "ne", 50)>>]}
\* Trees with NOT, with AND and OR without children, with between on other than
\* two values, with dates
MoreConditions ==
    {[operator |-> "and", conditions |-> <<>>],
     [operator |-> "or", conditions |-> <<>>],
     [operator |-> "and",
      conditions |-> <<Leaf("close", "gt", 1), [operator |-> "or", conditions |-> <<>>]>>],
     [operator |-> "not", conditions |-> <<>>],
     [operator |-> "not", conditions |-> <<Leaf("close", "gt", 1)>>],
     [operator |-> "not", conditions |-> <<Leaf("close", "gt", 1), Leaf("close", "lte", 1)>>],
     [operator |-> "and",
      conditions |-> <<Leaf("close", "lte", 1),
                       [operator |-> "not",
                        conditions |-> <<Leaf("close", "gt", 1), Leaf("rsi", "gt", 50)>>]>>],
     Leaf("close", "between", <<1>>), Leaf("close", "between", <<1, 2>>),
     Leaf("close", "between", <<1, 2, 3>>),
     Leaf("timestamp", "before", <<"iso", 2>>), Leaf("timestamp", "after", <<"iso", 1>>),
     Leaf("timestamp", "before", <<"text", 2>>), Leaf("timestamp", "after", <<"text", 1>>)}
\* Requests on the moving averages, which are stored in hundredths, and on the close
FieldRequests ==
    [symbol : {"BTC"}, timeframes : {<<"1h">>},
     conditions : {Leaf("ma.ma_50", "gt", 50), Leaf("ma.ma_5", "gt", 50),
                   Leaf("close", "gt", 0)},
     limit : {ListLimit}]
\* Requests on the bars of the last hours, of one timeframe and of two, with a
\* number of hours that is an int, a float or a string
WindowRequests ==
    [symbol : {"BTC"}, timeframes : {<<"1h">>, <<"1h", "1d">>},
     conditions : {Leaf("timestamp", "within_last", <<type, n>>) :
                      type \in {"int"}, n \in {1, 23, 24}}
                  \cup {Leaf("timestamp", "within_last", <<"float", 1>>),
                        Leaf("timestamp", "within_last", <<"str", 24>>)},
     limit : {ListLimit}]
\* Requests on the signals, with one tag, with a list of tags and with an empty
\* list, for every bar and for the latest one
SignalRequests ==
    LET Request(op, v, limit) ==
            [symbol |-> "BTC", timeframes |-> <<"1h">>,
             conditions |-> Leaf("signals", op, v), limit |-> limit]
        above == <<"str", "PRICE_ABOVE_MA50">>
        either == <<"list", <<"PRICE_ABOVE_MA50", "PRICE_BELOW_MA50">>>>
    IN  {Request("contains", above, CheckLimit), Request("contains", above, ListLimit),
         Request("not_contains", above, CheckLimit),
         Request("not_contains", above, ListLimit),
         Request("contains", either, ListLimit),
         Request("not_contains", either, CheckLimit),
         Request("contains", <<"list", <<>>>>, ListLimit)}
\* The requests given to execute_query
QueryRequests ==
    [symbol : Range(Symbols), timeframes : {<<"1h">>},
     conditions : QueryConditions \cup MoreConditions, limit : {1, ListLimit}]

----------------------------------------------------------------------------
(* The candle store (database/mongo_client.py) *)

\* None, as it is stored in a field that otherwise holds a number
Null == -1

\* process_kline_data: the document built for one exchange bar; the indicator
\* and signal fields start empty.  Of the indicators only the moving averages
\* are computed later on; rsi stays as it is set here
KlineDoc(symbol, tf, ts, close) ==
    [symbol |-> symbol, timeframe |-> tf, timestamp |-> ts, close |-> close,
     ma |-> <<>>, rsi |-> Null, signals |-> {}]

SameKey(d, symbol, tf, ts) ==
    d.symbol = symbol /\ d.timeframe = tf /\ d.timestamp = ts

\* kline_exists: count_documents(query) > 0
KlineExists(coll, symbol, tf, ts) ==
    \E i \in DOMAIN coll : SameKey(coll[i], symbol, tf, ts)

\* The first document of coll with the key, as update_one picks it
FirstWithKey(coll, symbol, tf, ts) ==
    CHOOSE i \in DOMAIN coll :
        /\ SameKey(coll[i], symbol, tf, ts)
        /\ \A j \in 1..(i - 1) : ~SameKey(coll[j], symbol, tf, ts)

\* insert_kline run alone: update_one(query, {'$set': kline_data}, upsert=True)
UpsertKline(coll, doc) ==
    IF KlineExists(coll, doc.symbol, doc.timeframe, doc.timestamp)
    THEN [coll EXCEPT ![FirstWithKey(coll, doc.symbol, doc.timeframe, doc.timestamp)] = doc]
    ELSE Append(coll, doc)

----------------------------------------------------------------------------
(* The query engine (alerts/query_engine.py) *)

\* _map_field_name: the store path of a query field, as a sequence of keys
MapFieldName(field) ==
    CASE field = "close" -> <<"close">>
      [] field = "rsi" -> <<"rsi">>
      [] field = "ma.ma_5" -> <<"ma", "ma_5">>
      [] field = "ma.ma_10" -> <<"ma", "ma_10">>
      [] field = "ma.ma_20" -> <<"ma", "ma_20">>
      [] field = "ma.ma_50" -> <<"ma", "ma_50">>
      [] field = "timestamp" -> <<"timestamp">>
      [] field = "timeframe" -> <<"timeframe">>
      [] field = "symbol" -> <<"symbol">>
      [] OTHER -> <<field>>

\* A ValueError raised while the query is built, in the place of the query
ValueError == [f \in {<<"$error">>} |-> "ValueError"]
Raises(q) == <<"$error">> \in DOMAIN q

\* datetime.isoformat: the timestamp as a string
IsoFormat(ts) == <<"iso", ts>>

\* datetime.fromisoformat succeeds on the strings isoformat makes
IsIsoDate(value) == value[1] = "iso"
FromIsoFormat(value) == value[2]

\* isinstance(value, int) of the value of a within_last leaf, which is written
\* with its Python type
IsInt(value) == value[1] = "int"

\* [value] if isinstance(value, str) else value, of the value of a contains leaf
\* on the signals, which is written with its Python type
AsList(value) == IF value[1] = "str" THEN <<value[2]>> ELSE value[2]

\* The operator that takes not_contains for contains
SignalsOperatorAlwaysIn(operator) == "in"

\* The MongoDB operator of contains and not_contains on the signals
SignalsOperator(operator) == IF operator = "contains" THEN "in" ELSE "nin"

\* A time delta that takes the periods as days
CalculateTimeDeltaInDays(periods) == periods * DayUnits

\* _calculate_time_delta: timedelta(hours=periods)
CalculateTimeDelta(periods) == periods * HourUnits

\* _build_single_condition for eq, ne, gt, gte, lt, lte, for between, which wants
\* a list of two values, for contains and not_contains on the signals, for before
\* and after, which want a date, and for within_last, which wants an int and
\* reads the clock; the last three bear on the timestamp whatever the field
BuildSingleCondition(cond) ==
    CASE cond.operator = "between" ->
            IF Len(cond.value) = 2
            THEN [f \in {MapFieldName(cond.field)} |-> [op |-> "between", value |-> cond.value]]
            ELSE ValueError
      [] cond.operator \in {"before", "after"} ->
            IF IsIsoDate(cond.value)
            THEN [f \in {<<"timestamp">>} |->
                    [op |-> IF cond.operator = "before" THEN "lt" ELSE "gt",
                     value |-> FromIsoFormat(cond.value)]]
            ELSE ValueError
      [] cond.operator \in {"contains", "not_contains"} /\ cond.field = "signals" ->
            [f \in {MapFieldName(cond.field)} |->
                [op |-> SignalsOperator(cond.operator), value |-> AsList(cond.value)]]
      [] cond.operator = "within_last" ->
            IF IsInt(cond.value)
            THEN [f \in {<<"timestamp">>} |->
                    [op |-> "gte", value |-> now - CalculateTimeDelta(cond.value[2])]]
            ELSE ValueError
      [] OTHER ->
            [f \in {MapFieldName(cond.field)} |-> [op |-> cond.operator, value |-> cond.value]]

\* _build_condition_query and _build_logical_condition: a leaf compiles by
\* itself; of the sub-conditions those that compile to nothing are dropped; none
\* left compiles to nothing; under AND and OR one sub-condition stands for the
\* whole and several go under "$and" or "$or"; NOT takes one and raises otherwise
RECURSIVE BuildConditionQuery(_)
BuildConditionQuery(cond) ==
    IF "conditions" \notin DOMAIN cond THEN BuildSingleCondition(cond)
    ELSE LET compiled == [k \in DOMAIN cond.conditions |->
                            BuildConditionQuery(cond.conditions[k])]
             NotEmpty(q) == DOMAIN q # {}
             subs == SelectSeq(compiled, NotEmpty)
         IN  IF \E k \in DOMAIN compiled : Raises(compiled[k]) THEN ValueError
             ELSE IF Len(subs) = 0 THEN <<>>
             ELSE IF cond.operator = "not"
             THEN IF Len(subs) = 1 THEN [f \in {<<"$not">>} |-> subs[1]] ELSE ValueError
             ELSE IF Len(subs) = 1 THEN subs[1]
             ELSE [f \in {<<IF cond.operator = "and" THEN "$and" ELSE "$or">>} |-> subs]

\* dict.update: keys of b replace those of a
DictUpdate(a, b) ==
    [k \in (DOMAIN a) \cup (DOMAIN b) |-> IF k \in DOMAIN b THEN b[k] ELSE a[k]]

\* _build_mongo_query: {"symbol": symbol} updated with the compiled conditions
BuildMongoQuery(symbol, cond) ==
    DictUpdate([f \in {<<"symbol">>} |-> [op |-> "eq", value |-> symbol]],
               BuildConditionQuery(cond))

\* tf_query = {**mongo_query, "timeframe": timeframe}
TfQuery(q, tf) ==
    DictUpdate(q, [f \in {<<"timeframe">>} |-> [op |-> "eq", value |-> tf]])

\* The values a document holds under a path: none when the field is missing
GetPath(doc, path) ==
    IF path[1] \notin DOMAIN doc THEN {}
    ELSE IF Len(path) = 1 THEN {doc[path[1]]}
    ELSE IF path[2] \in DOMAIN doc[path[1]] THEN {doc[path[1]][path[2]]}
    ELSE {}

\* The values under a path that MongoDB compares with a number or a string:
\* null, which only the scalar indicator fields can hold, is of neither type
Comparable(doc, path) ==
    {v \in GetPath(doc, path) : ~(path \in {<<"rsi">>, <<"cci">>} /\ v = Null)}

\* MongoDB's match of one document field against one constraint whose value is
\* a number or a string, or a list for $in and $nin on an array field.  $ne is
\* the negation of the equality match, so it holds of a null or missing field;
\* $in holds of an array with an element in the list and $nin is its negation
SatisfiesConstraint(doc, path, c) ==
    IF c.op = "ne"
    THEN \A v \in Comparable(doc, path) : v # c.value
    ELSE IF c.op = "nin"
    THEN \A v \in GetPath(doc, path) : v \cap Range(c.value) = {}
    ELSE IF c.op = "in"
    THEN \E v \in GetPath(doc, path) : v \cap Range(c.value) # {}
    ELSE \E v \in Comparable(doc, path) :
            CASE c.op = "eq"  -> v = c.value
              [] c.op = "gt"  -> v > c.value
              [] c.op = "gte" -> v >= c.value
              [] c.op = "lt"  -> v < c.value
              [] c.op = "lte" -> v <= c.value
              [] c.op = "between" -> v >= c.value[1] /\ v <= c.value[2]
              [] OTHER -> FALSE

\* A document matches a query when it matches every key of it.  A query that was
\* not built, or that MongoDB refuses, gives no document: execute_query raises.
RECURSIVE DocMatches(_, _)
DocMatches(doc, q) ==
    \A path \in DOMAIN q :
        CASE path = <<"$and">> -> \A k \in DOMAIN q[path] : DocMatches(doc, q[path][k])
          [] path = <<"$or">> -> \E k \in DOMAIN q[path] : DocMatches(doc, q[path][k])
          [] path \in {<<"$not">>, <<"$error">>} -> FALSE
          [] OTHER -> SatisfiesConstraint(doc, path, q[path])

\* MongoDB refuses a query that has "$not" in the place of a field
RECURSIVE MongoRejects(_)
MongoRejects(q) ==
    \/ <<"$not">> \in DOMAIN q
    \/ \E path \in DOMAIN q \cap {<<"$and">>, <<"$or">>} :
          \E k \in DOMAIN q[path] : MongoRejects(q[path][k])

\* collection.find(q): the matching documents, in collection order
Find(coll, q) ==
    LET T(d) == DocMatches(d, q) IN SelectSeq(coll, T)

\* sort("timestamp", -1): later timestamps first and, among equal timestamps,
\* the documents in the order they were found (a merge sort, which only turns
\* round what is found in increasing order)
RECURSIVE MergeDesc(_, _)
MergeDesc(a, b) ==
    IF Len(a) = 0 THEN b
    ELSE IF Len(b) = 0 THEN a
    ELSE IF a[1].timestamp >= b[1].timestamp THEN <<a[1]>> \o MergeDesc(Tail(a), b)
    ELSE <<b[1]>> \o MergeDesc(a, Tail(b))

RECURSIVE SortDesc(_)
SortDesc(docs) ==
    IF Len(docs) <= 1 THEN docs
    ELSE IF \A i \in 1..(Len(docs) - 1) : docs[i].timestamp < docs[i + 1].timestamp
    THEN Reverse(docs)
    ELSE LET mid == Len(docs) \div 2
         IN  MergeDesc(SortDesc(SubSeq(docs, 1, mid)),
                       SortDesc(SubSeq(docs, mid + 1, Len(docs))))

\* cursor.sort("timestamp", -1).limit(n)
SortDescLimit(docs, n) ==
    SubSeq(SortDesc(docs), 1, IF Len(docs) < n THEN Len(docs) ELSE n)

\* _process_result_item: the timestamp of a returned row is formatted
ProcessResultItem(item) == [item EXCEPT !.timestamp = IsoFormat(@)]

\* execute_query: per requested timeframe find, sort, limit; results concatenated
RECURSIVE ExecuteQueryFrom(_, _, _, _, _)
ExecuteQueryFrom(coll, q, tfs, k, limit) ==
    IF k > Len(tfs) THEN <<>>
    ELSE LET found == SortDescLimit(Find(coll, TfQuery(q, tfs[k])), limit)
         IN  [i \in DOMAIN found |-> ProcessResultItem(found[i])]
                \o ExecuteQueryFrom(coll, q, tfs, k + 1, limit)

\* total_count: count_documents(tf_query) summed over the requested timeframes
RECURSIVE TotalCount(_, _, _, _)
TotalCount(coll, q, tfs, k) ==
    IF k > Len(tfs) THEN 0
    ELSE Len(Find(coll, TfQuery(q, tfs[k]))) + TotalCount(coll, q, tfs, k + 1)

\* execute_query raises: the query could not be built, or count_documents
\* refused it
QueryRaises(symbol, tfs, cond) ==
    LET q == BuildMongoQuery(symbol, cond)
    IN  Raises(q) \/ (Len(tfs) > 0 /\ MongoRejects(q))

\* The rows execute_query gathers when it does not raise
ExecuteQuery(coll, symbol, tfs, cond, limit) ==
    ExecuteQueryFrom(coll, BuildMongoQuery(symbol, cond), tfs, 1, limit)

\* What the caller of execute_query gets when it raises
QueryFailed == [error |-> "raised"]

\* The QueryResult execute_query returns for a request
QueryResult(coll, req) ==
    IF QueryRaises(req.symbol, req.timeframes, req.conditions) THEN QueryFailed
    ELSE LET data == ExecuteQuery(coll, req.symbol, req.timeframes, req.conditions,
                                  req.limit)
         IN  [symbol |-> req.symbol,
              timeframes |-> req.timeframes,
              total_records |-> TotalCount(coll,
                                           BuildMongoQuery(req.symbol, req.conditions),
                                           req.timeframes, 1),
              matched_records |-> Len(data),
              data |-> data]

----------------------------------------------------------------------------
(* The exchange and the collector (data_collector/ccxt_collector.py) *)

\* The bars the exchange holds for a symbol, oldest first, as [timestamp, close].
\* BTC has its whole history; ETH was listed at bar EthListedAt and trades at the
\* same closes
ExchangeBars(mkt, symbol) ==
    LET first == IF symbol = "BTC" THEN 1 ELSE EthListedAt
        n == IF Len(mkt) < first THEN 0 ELSE Len(mkt) - first + 1
    IN  [k \in 1..n |-> <<first + k - 1, mkt[first + k - 1]>>]

\* fetch_klines: fetch_ohlcv(symbol, timeframe, limit), the last limit bars the
\* exchange holds for the symbol
FetchKlines(mkt, symbol, limit) ==
    LET held == ExchangeBars(mkt, symbol)
        n == IF Len(held) < limit THEN Len(held) ELSE limit
    IN  [k \in 1..n |-> held[Len(held) - n + k]]

\* process_kline_data
ProcessKlineData(raw, symbol, tf) ==
    [k \in DOMAIN raw |-> KlineDoc(symbol, tf, raw[k][1], raw[k][2])]

\* is_kline_exists: kline_exists, and False when the store raises
IsKlineExists(coll, doc, ok) ==
    IF ok THEN KlineExists(coll, doc.symbol, doc.timeframe, doc.timestamp) ELSE FALSE

----------------------------------------------------------------------------
(* Indicators and signals (indicators/calculator.py, indicators/signals.py): *)
(* the moving averages and the signals read from them.  Averages are kept   *)
(* multiplied by 100, which is exact for the periods 5, 10, 20 and 50.      *)

KeyQuery(symbol, tf) ==
    TfQuery([f \in {<<"symbol">>} |-> [op |-> "eq", value |-> symbol]], tf)

\* get_historical_data: the latest limit bars, oldest first
GetHistoricalData(coll, symbol, tf, limit) ==
    Reverse(SortDescLimit(Find(coll, KeyQuery(symbol, tf)), limit))

RECURSIVE SumCloses(_, _, _)
SumCloses(data, from, to) ==
    IF from > to THEN 0
    ELSE IF from = to THEN data[from].close
    ELSE LET mid == (from + to) \div 2
         IN  SumCloses(data, from, mid) + SumCloses(data, mid + 1, to)

MaKey(period) ==
    CASE period = 5 -> "ma5" [] period = 10 -> "ma10"
      [] period = 20 -> "ma20" [] period = 50 -> "ma50"

\* calculate_moving_averages: talib.SMA(...)[-1] per period, under the key ma<period>
CalculateMovingAverages(data) ==
    [key \in {MaKey(period) : period \in MaPeriods} |->
        LET period == CHOOSE q \in MaPeriods : MaKey(q) = key
        IN  SumCloses(data, Len(data) - period + 1, Len(data)) * (100 \div period)]

\* update_many in the place of update_one: every bar of the symbol and timeframe
SetOnEveryBar(coll, symbol, tf, ts, field, value) ==
    [i \in DOMAIN coll |->
        IF coll[i].symbol = symbol /\ coll[i].timeframe = tf
        THEN [coll[i] EXCEPT ![field] = value] ELSE coll[i]]

\* update_one({symbol, timeframe, timestamp}, {'$set': {field: value}}): the first
\* document with the key, if there is one
SetOnKey(coll, symbol, tf, ts, field, value) ==
    IF KlineExists(coll, symbol, tf, ts)
    THEN [coll EXCEPT ![FirstWithKey(coll, symbol, tf, ts)][field] = value]
    ELSE coll

\* calculate_all_indicators once historical_data is loaded: nothing below 50
\* bars; written to the latest bar of the data
WriteIndicators(coll, symbol, tf, data) ==
    IF Len(data) < MinBars THEN coll
    ELSE SetOnKey(coll, symbol, tf, data[Len(data)].timestamp, "ma",
                  CalculateMovingAverages(data))

\* calculate_all_indicators
CalculateAllIndicators(coll, symbol, tf) ==
    WriteIndicators(coll, symbol, tf, GetHistoricalData(coll, symbol, tf, IndicatorWindow))

\* detect_ma_signals that names the tag of a close above MA50 in lower case
DetectMaSignalsLowerCase(data) ==
    IF "ma50" \in DOMAIN data[Len(data)].ma THEN {"price_above_ma50"} ELSE {}

\* detect_ma_signals on the last two rows
DetectMaSignals(data) ==
    LET current == data[Len(data)]
        prev == data[Len(data) - 1]
        Has(d, key) == key \in DOMAIN d.ma
    IN  IF \E key \in {"ma5", "ma10", "ma20", "ma50"} : ~Has(current, key) THEN {}
        ELSE LET c == current.ma
                 prevKnown == Has(prev, "ma5") /\ Has(prev, "ma20")
             IN  (IF prevKnown /\ prev.ma["ma5"] <= prev.ma["ma20"] /\ c["ma5"] > c["ma20"]
                  THEN {"MA_GOLDEN_CROSS"}
                  ELSE IF prevKnown /\ prev.ma["ma5"] >= prev.ma["ma20"] /\ c["ma5"] < c["ma20"]
                  THEN {"MA_DEATH_CROSS"} ELSE {})
                 \cup
                 (IF c["ma5"] > c["ma10"] /\ c["ma10"] > c["ma20"] /\ c["ma20"] > c["ma50"]
                  THEN {"MA_BULLISH_ARRANGEMENT"}
                  ELSE IF c["ma5"] < c["ma10"] /\ c["ma10"] < c["ma20"] /\ c["ma20"] < c["ma50"]
                  THEN {"MA_BEARISH_ARRANGEMENT"} ELSE {})
                 \cup
                 (IF current.close * 100 > c["ma50"] THEN {"PRICE_ABOVE_MA50"}
                  ELSE IF current.close * 100 < c["ma50"] THEN {"PRICE_BELOW_MA50"} ELSE {})

\* detect_all_signals once historical_data is loaded: nothing below 2 bars;
\* written to the latest bar of the data
WriteSignals(coll, symbol, tf, data) ==
    IF Len(data) < 2 THEN coll
    ELSE SetOnKey(coll, symbol, tf, data[Len(data)].timestamp, "signals",
                  DetectMaSignals(data))

\* detect_all_signals
DetectAllSignals(coll, symbol, tf) ==
    WriteSignals(coll, symbol, tf, GetHistoricalData(coll, symbol, tf, SignalWindow))

\* _trigger_indicators_calculation that computes nothing
TriggerIndicatorsCalculationSkipped(coll, symbol, tf) == coll

\* _trigger_indicators_calculation
TriggerIndicatorsCalculation(coll, symbol, tf) ==
    DetectAllSignals(CalculateAllIndicators(coll, symbol, tf), symbol, tf)

\* One iteration of the loop of collect_and_store_data (trigger FALSE) and of
\* collect_latest_data (trigger TRUE): the bar is skipped when it is found in the
\* store, and stored otherwise
StoreBar(coll, doc, ok, trigger) ==
    IF IsKlineExists(coll, doc, ok) THEN coll
    ELSE IF trigger
    THEN TriggerIndicatorsCalculation(UpsertKline(coll, doc), doc.symbol, doc.timeframe)
    ELSE UpsertKline(coll, doc)

\* The loop over the fetched bars, from bar k on; the existence check of bar
\* failAt raises.  (Len(coll) is read so that TLC computes the store of each
\* iteration before it goes on to the next.)
RECURSIVE StoreBars(_, _, _, _, _)
StoreBars(coll, bars, k, failAt, trigger) ==
    IF Len(coll) >= 0 /\ k <= Len(bars)
    THEN StoreBars(StoreBar(coll, bars[k], k # failAt, trigger), bars, k + 1, failAt, trigger)
    ELSE coll

\* The bars of the symbols whose fetch succeeded, as process_kline_data returns
\* them, symbol after symbol from symbol k on
RECURSIVE FetchedBars(_, _, _, _, _)
FetchedBars(mkt, symbols, k, limit, fetched) ==
    IF k > Len(symbols) THEN <<>>
    ELSE (IF fetched[k]
          THEN ProcessKlineData(FetchKlines(mkt, symbols[k], limit), symbols[k], "1h")
          ELSE <<>>)
         \o FetchedBars(mkt, symbols, k + 1, limit, fetched)

\* The loop over the symbols leaving at the first fetch that fails
RECURSIVE CollectSymbolsAbort(_, _, _, _, _, _, _, _)
CollectSymbolsAbort(coll, mkt, symbols, k, limit, fetched, failAt, trigger) ==
    IF Len(coll) >= 0 /\ k <= Len(symbols) /\ fetched[k]
    THEN CollectSymbolsAbort(
             StoreBars(coll,
                       ProcessKlineData(FetchKlines(mkt, symbols[k], limit), symbols[k], "1h"),
                       1, IF failAt[1] = k THEN failAt[2] ELSE 0, trigger),
             mkt, symbols, k + 1, limit, fetched, failAt, trigger)
    ELSE coll

\* The loop over the symbols, from symbol k on: a symbol whose fetch failed is
\* left out, and the loop goes on to the next one.  failAt is <<s, b>>: the
\* existence check of bar b of symbol s raises
RECURSIVE CollectSymbols(_, _, _, _, _, _, _, _)
CollectSymbols(coll, mkt, symbols, k, limit, fetched, failAt, trigger) ==
    IF Len(coll) >= 0 /\ k <= Len(symbols)
    THEN CollectSymbols(
             IF fetched[k]
             THEN StoreBars(coll,
                            ProcessKlineData(FetchKlines(mkt, symbols[k], limit),
                                             symbols[k], "1h"),
                            1, IF failAt[1] = k THEN failAt[2] ELSE 0, trigger)
             ELSE coll,
             mkt, symbols, k + 1, limit, fetched, failAt, trigger)
    ELSE coll

----------------------------------------------------------------------------
(* The alert registry and evaluator (alerts/alert_manager.py) *)

\* AlertRule as create_alert_rule stores it
NewRule(id, tfs, freq, active) ==
    [id |-> id, symbol |-> "BTC", timeframes |-> tfs,
     trigger_conditions |-> [field |-> "close", operator |-> "gt", value |-> 1],
     frequency |-> freq, is_active |-> active,
     last_triggered_at |-> NoTime, trigger_count |-> 0]

\* list_alert_rules without the filter on is_active
ListRulesUnfiltered(coll) ==
    SubSeq(coll, 1, IF Len(coll) < ListLimit THEN Len(coll) ELSE ListLimit)

\* list_alert_rules(is_active=True): find(filter).limit(limit), in collection order
ListActiveRules(coll) ==
    LET T(r) == r.is_active
        found == SelectSeq(coll, T)
    IN SubSeq(found, 1, IF Len(found) < ListLimit THEN Len(found) ELSE ListLimit)

\* _should_check_rule without the test on once rules
ShouldCheckRuleIgnoresOnce(rule, t) ==
    IF rule.last_triggered_at # NoTime
         /\ \/ rule.frequency = "hourly" /\ t - rule.last_triggered_at < HourUnits
            \/ rule.frequency = "daily" /\ t - rule.last_triggered_at < DayUnits
    THEN FALSE
    ELSE TRUE

\* _should_check_rule without the test on the time since the last trigger
ShouldCheckRuleIgnoresInterval(rule, t) ==
    IF rule.frequency = "once" /\ rule.trigger_count > 0 THEN FALSE ELSE TRUE

\* _should_check_rule at time t
ShouldCheckRule(rule, t) ==
    IF rule.frequency = "once" /\ rule.trigger_count > 0 THEN FALSE
    ELSE IF rule.last_triggered_at # NoTime
              /\ \/ rule.frequency = "hourly" /\ t - rule.last_triggered_at < HourUnits
                 \/ rule.frequency = "daily" /\ t - rule.last_triggered_at < DayUnits
         THEN FALSE
    ELSE TRUE

\* update_alert_rule called by _trigger_alert:
\* update_one({"id": rule_id}, {"$set": {last_triggered_at, trigger_count}})
SetTriggered(coll, rule, t) ==
    [i \in DOMAIN coll |->
        IF coll[i].id = rule.id
        THEN [coll[i] EXCEPT !.last_triggered_at = t,
                             !.trigger_count = rule.trigger_count + 1]
        ELSE coll[i]]

\* What the receiver can answer to requests.post
WebhookResponses ==
    { [status |-> 200, body |-> "success_true"],
      [status |-> 200, body |-> "success_false"],
      [status |-> 200, body |-> "success_not_boolean"],
      [status |-> 200, body |-> "not_json"],
      [status |-> 201, body |-> "success_true"],
      [status |-> 500, body |-> "not_json"],
      [status |-> 0,   body |-> "transport_error"] }

\* message_sent as _trigger_alert computes it
MessageSent(resp) == resp.status = 200 /\ resp.body = "success_true"

\* AlertTriggerResult(message_sent=...) validates its bool field
TriggerResultValid(resp) == ~(resp.status = 200 /\ resp.body = "success_not_boolean")

\* AlertTriggerResult as saved to alert_history
HistoryRecord(rule, doc, t, resp) ==
    [rule_id |-> rule.id, timeframe |-> doc.timeframe, trigger_time |-> t,
     message_sent |-> MessageSent(resp)]

\* check_alert_rules leaving the for loop at the first exception
NextRuleIndexAbort(i, n, raised) == IF raised THEN n + 1 ELSE i + 1

\* The for loop of check_alert_rules goes on to the next rule, also after an exception
NextRuleIndex(i, n, raised) == i + 1

\* _trigger_alert letting the failures of the webhook escape
WebhookRaisesOnError(resp) == resp.status # 200 \/ resp.body = "not_json"

\* requests.post and response.json() run inside try/except Exception: whatever
\* the receiver does, nothing escapes and _trigger_alert goes on to the rule update
WebhookRaises(resp) == FALSE

Faults == {"none", "query", "update", "insert"}

\* What one iteration of the for loop did: whether the rule was due, whether its
\* query matched, whether the webhook was posted, and what raised
LogEntry(rule, due, matched, posted, fault) ==
    [rule_id |-> rule.id, due |-> due, matched |-> matched, posted |-> posted,
     fault |-> fault]

\* create_alert_rule
CreateRule(tfs, freq, active) ==
    /\ Len(rules) < MaxRules
    /\ rules' = Append(rules, NewRule(Len(rules) + 1, tfs, freq, active))
    /\ UNCHANGED <<now, history, klines, pc, snapshot, idx, tickLog, histStart, performed>>
    /\ UNCHANGED <<ingestVars, queryVars, serviceVars>>

\* the clock
Advance(t) ==
    /\ t > now
    /\ now' = t
    /\ UNCHANGED <<rules, history, klines, pc, snapshot, idx, tickLog, histStart, performed>>
    /\ UNCHANGED <<ingestVars, queryVars, serviceVars>>

\* insert_kline, called by the collector for the next bar of the exchange, which
\* is not yet stored
InsertKline(tf, ts, close) ==
    /\ ~KlineExists(klines, "BTC", tf, ts)
    /\ \A t \in 1..(ts - 1) : KlineExists(klines, "BTC", tf, t)
    /\ klines' = UpsertKline(klines, KlineDoc("BTC", tf, ts, close))
    /\ UNCHANGED <<now, rules, history, pc, snapshot, idx, tickLog, histStart, performed>>
    /\ UNCHANGED <<ingestVars, queryVars, serviceVars>>

\* check_alert_rules, up to the for loop: list_alert_rules(is_active=True)
LoadRules(e, ok) ==
    /\ pc[e] = "idle"
    /\ pc' = [pc EXCEPT ![e] = "checking"]
    /\ snapshot' = [snapshot EXCEPT ![e] = IF ok THEN ListActiveRules(rules) ELSE <<>>]
    /\ idx' = [idx EXCEPT ![e] = 1]
    /\ tickLog' = [tickLog EXCEPT ![e] = <<>>]
    /\ histStart' = [histStart EXCEPT ![e] = Len(history)]
    /\ UNCHANGED <<now, rules, history, klines, performed>>
    /\ UNCHANGED <<ingestVars, queryVars, serviceVars>>

\* The row handed to _trigger_alert taken from the end of the result
TriggerDataLast(result) == result[Len(result)]

\* query_result.data[0]: the row _check_single_rule hands to _trigger_alert
TriggerData(result) == result[1]

\* One iteration of the for loop: _should_check_rule, _check_single_rule and,
\* on a match, _trigger_alert.  fault names the store operation that raises.
CheckRule(e, fault, resp, t) ==
    /\ pc[e] = "checking"
    /\ idx[e] <= Len(snapshot[e])
    /\ LET rule == snapshot[e][idx[e]]
           due == ShouldCheckRule(rule, now)
           result == ExecuteQuery(klines, rule.symbol, rule.timeframes,
                                  rule.trigger_conditions, CheckLimit)
           matched == Len(result) > 0
           Skip(lg, raised) ==
               /\ tickLog' = [tickLog EXCEPT ![e] = Append(@, lg)]
               /\ idx' = [idx EXCEPT ![e] = NextRuleIndex(@, Len(snapshot[e]), raised)]
           Log(posted, raised) ==
               LogEntry(rule, due, due /\ matched /\ raised # "query", posted, raised)
       IN  /\ IF ~due \/ fault = "query" \/ ~matched
              THEN /\ fault \in {"none", "query"}
                   /\ fault = "query" => due
                   /\ resp.status = 0 /\ t = now
                   /\ (due /\ QueryRaises(rule.symbol, rule.timeframes,
                                          rule.trigger_conditions)) => fault = "query"
                   /\ Skip(Log(FALSE, fault), fault = "query")
                   /\ UNCHANGED <<now, rules, history, performed>>
              ELSE /\ SumTo(performed, MaxRules) < MaxTriggers
                   /\ now' = t
                   /\ IF WebhookRaises(resp)
                      THEN /\ fault = "none"
                           /\ Skip(Log(TRUE, "webhook"), TRUE)
                           /\ UNCHANGED <<rules, history, performed>>
                      ELSE IF fault = "update"
                      THEN /\ Skip(Log(TRUE, "update"), TRUE)
                           /\ UNCHANGED <<rules, history, performed>>
                      ELSE /\ rules' = SetTriggered(rules, rule, t)
                           /\ performed' = [performed EXCEPT ![rule.id] = @ + 1]
                           /\ IF ~TriggerResultValid(resp)
                              THEN /\ fault = "none"
                                   /\ Skip(Log(TRUE, "validation"), TRUE)
                                   /\ UNCHANGED history
                              ELSE IF fault = "insert"
                              THEN /\ Skip(Log(TRUE, "insert"), TRUE)
                                   /\ UNCHANGED history
                              ELSE /\ Skip(Log(TRUE, "none"), FALSE)
                                   /\ history' = Append(history,
                                                        HistoryRecord(rule, TriggerData(result), t, resp))
    /\ UNCHANGED <<klines, pc, snapshot, histStart>>
    /\ UNCHANGED <<ingestVars, queryVars, serviceVars>>

\* check_alert_rules returns
FinishTick(e) ==
    /\ pc[e] = "checking"
    /\ idx[e] > Len(snapshot[e])
    /\ pc' = [pc EXCEPT ![e] = "idle"]
    /\ snapshot' = [snapshot EXCEPT ![e] = <<>>]
    /\ idx' = [idx EXCEPT ![e] = 1]
    /\ tickLog' = [tickLog EXCEPT ![e] = <<>>]
    /\ histStart' = [histStart EXCEPT ![e] = 0]
    /\ UNCHANGED <<now, rules, history, klines, performed>>
    /\ UNCHANGED <<ingestVars, queryVars, serviceVars>>

\* webhook_response as _trigger_alert sets it: the decoded body of a 200, the
\* status and the text of another answer, or the error of an exception, which
\* response.json() raises on a body that is no JSON
WebhookResponse(resp) ==
    IF resp.status = 200 /\ resp.body # "not_json" THEN [body |-> resp.body]
    ELSE IF resp.status \in {0, 200} THEN [error |-> "exception"]
    ELSE [error |-> "status", status |-> resp.status, response |-> resp.body]

\* The AlertTriggerResult that _trigger_alert builds and returns; alert_history
\* gets its dict()
TriggerResult(rule, doc, t, resp) ==
    DictUpdate(HistoryRecord(rule, doc, t, resp),
               [f \in {"webhook_response"} |-> WebhookResponse(resp)])

\* _trigger_alert for the i-th rule, as _check_single_rule calls it when the
\* rule is due and its query has a row, with nothing of the store failing
TriggerAlert(i, resp) ==
    /\ i \in DOMAIN rules
    /\ SumTo(performed, MaxRules) < MaxTriggers
    /\ LET rule == rules[i]
           result == ExecuteQuery(klines, rule.symbol, rule.timeframes,
                                  rule.trigger_conditions, CheckLimit)
       IN  /\ rule.is_active
           /\ ShouldCheckRule(rule, now)
           /\ Len(result) > 0
           /\ rules' = SetTriggered(rules, rule, now)
           /\ performed' = [performed EXCEPT ![rule.id] = @ + 1]
           /\ IF TriggerResultValid(resp)
              THEN /\ history' = Append(history, HistoryRecord(rule, result[1], now, resp))
                   /\ lastCall' = [op |-> "trigger", given |-> resp,
                                   returned |-> TriggerResult(rule, result[1], now, resp)]
              ELSE /\ UNCHANGED history
                   /\ lastCall' = [op |-> "trigger", given |-> resp,
                                   returned |-> [raised |-> "ValidationError"]]
    /\ UNCHANGED <<now, klines, pc, snapshot, idx, tickLog, histStart>>
    /\ UNCHANGED <<ingestVars, queryVars, created, is_monitoring, monitor_task>>

\* The fields of AlertRule
RuleSchema ==
    {"id", "name", "symbol", "timeframes", "trigger_conditions", "frequency",
     "is_active", "last_triggered_at", "trigger_count"}

\* The AlertRule objects the API builds from request bodies: AlertRule(**rule_data)
\* takes every field of the schema that the body gives, checks the types, and puts
\* no condition on the shape of the trigger_conditions tree.  An id of 0 is a body
\* without id.
RuleInput(id, name, cond, active, count) ==
    [id |-> id, name |-> name, symbol |-> "BTC", timeframes |-> <<"1h">>,
     trigger_conditions |-> cond, frequency |-> "once", is_active |-> active,
     last_triggered_at |-> NoTime, trigger_count |-> count]
RuleInputs ==
    {RuleInput(0, "a", Leaf("close", "gt", 1), TRUE, 0),
     RuleInput(0, "b", Leaf("close", "gt", 1), FALSE, 0),
     RuleInput(2, "c", Leaf("close", "gt", 1), TRUE, 1),
     RuleInput(0, "d", Leaf("close", "between", <<1>>), TRUE, 0),
     RuleInput(0, "e", [operator |-> "not",
                     conditions |-> <<Leaf("close", "gt", 1), Leaf("close", "lte", 1)>>],
               TRUE, 0)}

\* The bodies of the partial updates
RuleUpdates ==
    {[f \in {"is_active"} |-> FALSE], [f \in {"name"} |-> "z"],
     [f \in {"color"} |-> "red"]}

\* The rows of coll with the id
WithId(coll, id) == {i \in DOMAIN coll : coll[i].id = id}

\* The first row of coll with the id, as find_one, update_one and delete_one pick it
FirstWithId(coll, id) == CHOOSE i \in WithId(coll, id) : \A j \in WithId(coll, id) : i <= j

\* None, the answer of get_alert_rule when no document has the id
NoRule == [none |-> TRUE]

\* get_alert_rule: AlertRule(**rule_data) of the document found, which keeps the
\* fields of the schema, or None
GetAlertRule(coll, id) ==
    IF WithId(coll, id) = {} THEN NoRule
    ELSE LET doc == coll[FirstWithId(coll, id)]
         IN  [k \in DOMAIN doc \cap RuleSchema |-> doc[k]]

\* An assignment that keeps the id of the request body when the body gives one
AssignIdUnlessGiven(rule, id) == IF rule.id # 0 THEN rule ELSE [rule EXCEPT !.id = id]

\* alert_rule.id = rule_id, whatever id the request body gave
AssignId(rule, id) == [rule EXCEPT !.id = id]

\* create_alert_rule: a fresh id, then insert_one of the rule as it is
CreateAlertRule(rule) ==
    /\ created < MaxRules
    /\ created' = created + 1
    /\ rules' = Append(rules, AssignId(rule, created + 1))
    /\ lastCall' = [op |-> "create", rule_id |-> created + 1, given |-> rule,
                    returned |-> [id |-> created + 1]]
    /\ UNCHANGED <<now, history, klines, pc, snapshot, idx, tickLog, histStart, performed>>
    /\ UNCHANGED <<ingestVars, queryVars, is_monitoring, monitor_task>>

\* update_alert_rule: update_one({"id": rule_id}, {"$set": updates}), true when a
\* document was modified
UpdateAlertRule(id, updates) ==
    /\ rules' = IF WithId(rules, id) = {} THEN rules
                ELSE [rules EXCEPT ![FirstWithId(rules, id)] = DictUpdate(@, updates)]
    /\ lastCall' = [op |-> "update", rule_id |-> id, given |-> updates,
                    returned |-> [ok |-> WithId(rules, id) # {}]]
    /\ UNCHANGED <<now, history, klines, pc, snapshot, idx, tickLog, histStart, performed>>
    /\ UNCHANGED <<ingestVars, queryVars, created, is_monitoring, monitor_task>>

\* delete_alert_rule: delete_one({"id": rule_id}), true when a document was deleted
DeleteAlertRule(id) ==
    /\ rules' = IF WithId(rules, id) = {} THEN rules
                ELSE LET k == FirstWithId(rules, id)
                     IN  SubSeq(rules, 1, k - 1) \o SubSeq(rules, k + 1, Len(rules))
    /\ lastCall' = [op |-> "delete", rule_id |-> id, given |-> [id |-> id],
                    returned |-> [ok |-> WithId(rules, id) # {}]]
    /\ UNCHANGED <<now, history, klines, pc, snapshot, idx, tickLog, histStart, performed>>
    /\ UNCHANGED <<ingestVars, queryVars, created, is_monitoring, monitor_task>>

\* get_alert_rule, called by the API
GetRule(id) ==
    /\ lastCall' = [op |-> "get", rule_id |-> id, given |-> [id |-> id],
                    returned |-> GetAlertRule(rules, id)]
    /\ UNCHANGED <<alertVars, klines, ingestVars, queryVars, created, is_monitoring,
                   monitor_task>>

\* delete_many with $lte in the place of $lt
DeleteManyUpTo(coll, tf, cutoff) ==
    LET Keep(d) == ~(d.timeframe = tf /\ d.timestamp <= cutoff) IN SelectSeq(coll, Keep)

\* delete_many({'timeframe': tf, 'timestamp': {'$lt': cutoff}})
DeleteMany(coll, tf, cutoff) ==
    LET Keep(d) == ~(d.timeframe = tf /\ d.timestamp < cutoff) IN SelectSeq(coll, Keep)

\* The body of data_cleanup_task at the instant t: delete_many for 5m, then for
\* 15m, inside one try.  failAt is the delete_many that raises (0: none); the
\* ones after it are not made.
DataCleanup(coll, t, failAt) ==
    LET cutoff == t - RetentionUnits
        first == IF failAt = 1 THEN coll ELSE DeleteMany(coll, "5m", cutoff)
    IN  IF failAt \in {1, 2} THEN first ELSE DeleteMany(first, "15m", cutoff)

\* data_cleanup_task
DataCleanupTask(failAt) ==
    /\ klines' = DataCleanup(klines, now, failAt)
    /\ lastCall' = [op |-> "cleanup", at |-> now, returned |-> [ok |-> failAt = 0]]
    /\ UNCHANGED <<alertVars, ingestVars, queryVars, created, is_monitoring, monitor_task>>

\* The monitor task of evaluator e yields to the event loop at every await
TaskSuspendedAtAnyAwait(e) == TRUE

\* The monitor task of evaluator e is suspended, so that another coroutine of the
\* event loop can run: it is in asyncio.sleep or has not made its first step.
\* Inside check_alert_rules every await is on a coroutine that never suspends
\* (pymongo and requests block), so the task does not yield during a tick.
TaskSuspended(e) == pc[e] = "idle"

\* A start_monitoring that does not look at is_monitoring
AlreadyMonitoringIgnored == FALSE

\* if self.is_monitoring: return
AlreadyMonitoring == is_monitoring

\* asyncio.create_task(self._monitor_loop()): one more monitor loop runs, and the
\* field refers to it; "several" when the loop it referred to still runs
CreateTask(task) == IF task \in {"active", "several"} THEN "several" ELSE "active"

\* start_monitoring, awaited on the event loop of the monitor task
StartMonitoring ==
    /\ TaskSuspended(1)
    /\ IF AlreadyMonitoring
       THEN UNCHANGED <<is_monitoring, monitor_task>>
       ELSE /\ is_monitoring' = TRUE
            /\ monitor_task' = CreateTask(monitor_task)
    /\ lastCall' = [op |-> "start", returned |-> [started |-> ~AlreadyMonitoring]]
    /\ UNCHANGED <<alertVars, klines, ingestVars, queryVars, created>>

\* stop_monitoring, awaited on the event loop of the monitor task: cancel() makes
\* the await at which the task is suspended raise CancelledError, which ends
\* _monitor_loop wherever it is, and stop_monitoring returns when the task is done
StopMonitoring ==
    /\ TaskSuspended(1)
    /\ IF ~is_monitoring
       THEN UNCHANGED <<is_monitoring, monitor_task, pc, snapshot, idx, tickLog, histStart>>
       ELSE /\ is_monitoring' = FALSE
            /\ monitor_task' = "done"
            /\ pc' = [pc EXCEPT ![1] = "idle"]
            /\ snapshot' = [snapshot EXCEPT ![1] = <<>>]
            /\ idx' = [idx EXCEPT ![1] = 1]
            /\ tickLog' = [tickLog EXCEPT ![1] = <<>>]
            /\ histStart' = [histStart EXCEPT ![1] = 0]
    /\ lastCall' = [op |-> "stop"]
    /\ UNCHANGED <<now, rules, history, klines, performed, ingestVars, queryVars, created>>

\* _monitor_loop makes its first step or wakes from asyncio.sleep, finds
\* is_monitoring set and calls check_alert_rules
MonitorTick(ok) ==
    /\ is_monitoring
    /\ monitor_task = "active"
    /\ LoadRules(1, ok)

\* Something raised during the tick of evaluator e
TickRaised(e) == \E k \in DOMAIN tickLog[e] : tickLog[e][k].fault # "none"

\* A _monitor_loop that an exception of the tick ends
LoopGoesOnUnlessRaised(raised) == ~raised

\* _monitor_loop after check_alert_rules: what raised in the tick was caught, by
\* check_alert_rules or by except Exception of the loop, and the loop goes on to
\* asyncio.sleep
LoopGoesOn(raised) == TRUE

\* check_alert_rules returns to _monitor_loop, which goes to sleep
MonitorSleep ==
    /\ pc[1] = "checking"
    /\ idx[1] > Len(snapshot[1])
    /\ pc' = [pc EXCEPT ![1] = "idle"]
    /\ snapshot' = [snapshot EXCEPT ![1] = <<>>]
    /\ idx' = [idx EXCEPT ![1] = 1]
    /\ tickLog' = [tickLog EXCEPT ![1] = <<>>]
    /\ histStart' = [histStart EXCEPT ![1] = 0]
    /\ monitor_task' = IF LoopGoesOn(TickRaised(1)) THEN monitor_task ELSE "done"
    /\ UNCHANGED <<now, rules, history, klines, performed>>
    /\ UNCHANGED <<ingestVars, queryVars, created, lastCall, is_monitoring>>

\* The exchange opens a new bar
MarketTick(close, most) ==
    /\ Len(market) < most
    /\ market' = Append(market, close)
    /\ UNCHANGED <<klines, lastBatch, cpc, cbatch, cpos, cmatch>>
    /\ UNCHANGED <<alertVars, queryVars, serviceVars>>

\* The bar that is still forming trades on: the exchange reports another close
\* for its most recent bar
MarketUpdate(close) ==
    /\ Len(market) > 0
    /\ close # market[Len(market)]
    /\ market' = [market EXCEPT ![Len(market)] = close]
    /\ UNCHANGED <<klines, lastBatch, cpc, cbatch, cpos, cmatch>>
    /\ UNCHANGED <<alertVars, queryVars, serviceVars>>

\* calculate_all_indicators for one symbol and timeframe, as batch_calculate_indicators
\* calls it, run alone
IndicatorPass(symbol, tf) ==
    /\ \A p \in Collectors : cpc[p] = "idle"
    /\ klines' = CalculateAllIndicators(klines, symbol, tf)
    /\ lastBatch' = <<>>
    /\ UNCHANGED <<market, cpc, cbatch, cpos, cmatch>>
    /\ UNCHANGED <<alertVars, queryVars, serviceVars>>

\* detect_all_signals for one symbol and timeframe, as batch_detect_signals calls
\* it, run alone
SignalPass(symbol, tf) ==
    /\ \A p \in Collectors : cpc[p] = "idle"
    /\ klines' = DetectAllSignals(klines, symbol, tf)
    /\ lastBatch' = <<>>
    /\ UNCHANGED <<market, cpc, cbatch, cpos, cmatch>>
    /\ UNCHANGED <<alertVars, queryVars, serviceVars>>

\* collect_and_store_data, run alone.  fetched tells, symbol by symbol, whether
\* the exchange answered
CollectAndStoreData(fetched, failAt) ==
    /\ \A p \in Collectors : cpc[p] = "idle"
    /\ failAt[1] \in DOMAIN Symbols
    /\ failAt[2] <= Len(FetchKlines(market, Symbols[failAt[1]], HistoricalLimit))
    /\ klines' = CollectSymbols(klines, market, Symbols, 1, HistoricalLimit,
                                fetched, failAt, FALSE)
    /\ lastBatch' = <<>>
    /\ UNCHANGED <<market, cpc, cbatch, cpos, cmatch>>
    /\ UNCHANGED <<alertVars, queryVars, serviceVars>>

\* collect_latest_data, run alone
CollectLatestData(fetched, failAt) ==
    /\ \A p \in Collectors : cpc[p] = "idle"
    /\ failAt[1] \in DOMAIN Symbols
    /\ failAt[2] <= Len(FetchKlines(market, Symbols[failAt[1]], LatestLimit))
    /\ klines' = CollectSymbols(klines, market, Symbols, 1, LatestLimit,
                                fetched, failAt, TRUE)
    /\ lastBatch' = FetchedBars(market, Symbols, 1, LatestLimit, fetched)
    /\ UNCHANGED <<market, cpc, cbatch, cpos, cmatch>>
    /\ UNCHANGED <<alertVars, queryVars, serviceVars>>

\* The limit of the fetch of a collector
FetchLimit(p) == IF p = "backfill" THEN HistoricalLimit ELSE LatestLimit

\* A collector fetches and processes its bars
Fetch(p) ==
    /\ cpc[p] = "idle"
    /\ cbatch' = [cbatch EXCEPT ![p] =
                    ProcessKlineData(FetchKlines(market, "BTC", FetchLimit(p)), "BTC", "1h")]
    /\ cpos' = [cpos EXCEPT ![p] = 1]
    /\ cpc' = [cpc EXCEPT ![p] = "exists"]
    /\ lastBatch' = <<>>
    /\ UNCHANGED <<klines, market, cmatch>>
    /\ UNCHANGED <<alertVars, queryVars, serviceVars>>

\* is_kline_exists for the next bar: skip it, or go on to insert_kline
CheckExists(p, ok) ==
    /\ cpc[p] = "exists"
    /\ cpos[p] <= Len(cbatch[p])
    /\ IF IsKlineExists(klines, cbatch[p][cpos[p]], ok)
       THEN cpos' = [cpos EXCEPT ![p] = @ + 1] /\ UNCHANGED cpc
       ELSE cpc' = [cpc EXCEPT ![p] = "match"] /\ UNCHANGED cpos
    /\ UNCHANGED <<klines, market, lastBatch, cbatch, cmatch>>
    /\ UNCHANGED <<alertVars, queryVars, serviceVars>>

\* insert_kline, update_one(upsert=True), first half: the query looks for a
\* document with the key
UpsertMatch(p) ==
    /\ cpc[p] = "match"
    /\ LET doc == cbatch[p][cpos[p]]
       IN  cmatch' = [cmatch EXCEPT ![p] =
                        IF KlineExists(klines, doc.symbol, doc.timeframe, doc.timestamp)
                        THEN FirstWithKey(klines, doc.symbol, doc.timeframe, doc.timestamp)
                        ELSE 0]
    /\ cpc' = [cpc EXCEPT ![p] = "write"]
    /\ UNCHANGED <<klines, market, lastBatch, cbatch, cpos>>
    /\ UNCHANGED <<alertVars, queryVars, serviceVars>>

\* insert_kline, update_one(upsert=True), second half: the matched document is
\* set, or a new one is inserted when nothing was matched
UpsertWrite(p) ==
    /\ cpc[p] = "write"
    /\ klines' = IF cmatch[p] = 0 THEN Append(klines, cbatch[p][cpos[p]])
                 ELSE [klines EXCEPT ![cmatch[p]] = cbatch[p][cpos[p]]]
    /\ IF p = "latest"
       THEN cpc' = [cpc EXCEPT ![p] = "calc"] /\ UNCHANGED cpos
       ELSE cpc' = [cpc EXCEPT ![p] = "exists"] /\ cpos' = [cpos EXCEPT ![p] = @ + 1]
    /\ cmatch' = [cmatch EXCEPT ![p] = 0]
    /\ UNCHANGED <<market, lastBatch, cbatch>>
    /\ UNCHANGED <<alertVars, queryVars, serviceVars>>

\* collect_latest_data after a new bar is stored: _trigger_indicators_calculation
TriggerCalc(p) ==
    /\ cpc[p] = "calc"
    /\ LET doc == cbatch[p][cpos[p]]
       IN  klines' = TriggerIndicatorsCalculation(klines, doc.symbol, doc.timeframe)
    /\ cpc' = [cpc EXCEPT ![p] = "exists"]
    /\ cpos' = [cpos EXCEPT ![p] = @ + 1]
    /\ UNCHANGED <<market, lastBatch, cbatch, cmatch>>
    /\ UNCHANGED <<alertVars, queryVars, serviceVars>>

\* The collector has gone through its bars
FinishCollect(p) ==
    /\ cpc[p] = "exists"
    /\ cpos[p] > Len(cbatch[p])
    /\ cpc' = [cpc EXCEPT ![p] = "idle"]
    /\ cbatch' = [cbatch EXCEPT ![p] = <<>>]
    /\ cpos' = [cpos EXCEPT ![p] = 1]
    /\ UNCHANGED <<klines, market, lastBatch, cmatch>>
    /\ UNCHANGED <<alertVars, queryVars, serviceVars>>

\* A job of the scheduler loads the historical data of the symbol and timeframe
JobLoad(j, symbol, tf) ==
    /\ cpc[j] = "idle"
    /\ cbatch' = [cbatch EXCEPT ![j] =
                    GetHistoricalData(klines, symbol, tf,
                                      IF j = "indicators" THEN IndicatorWindow
                                                          ELSE SignalWindow)]
    /\ cpc' = [cpc EXCEPT ![j] = "loaded"]
    /\ UNCHANGED <<klines, market, lastBatch, cpos, cmatch>>
    /\ UNCHANGED <<alertVars, queryVars, serviceVars>>

\* The job computes on the data it loaded and writes onto the latest bar of it
JobWrite(j, symbol, tf) ==
    /\ cpc[j] = "loaded"
    /\ klines' = IF j = "indicators" THEN WriteIndicators(klines, symbol, tf, cbatch[j])
                                     ELSE WriteSignals(klines, symbol, tf, cbatch[j])
    /\ cbatch' = [cbatch EXCEPT ![j] = <<>>]
    /\ cpc' = [cpc EXCEPT ![j] = "idle"]
    /\ lastBatch' = <<>>
    /\ UNCHANGED <<market, cpos, cmatch>>
    /\ UNCHANGED <<alertVars, queryVars, serviceVars>>

\* The state after construction, on the rule collection that the store holds
InitWith(stored) ==
    /\ now = 0
    /\ rules = stored
    /\ history = <<>>
    /\ klines = <<>>
    /\ pc = [e \in Evaluators |-> "idle"]
    /\ snapshot = [e \in Evaluators |-> <<>>]
    /\ idx = [e \in Evaluators |-> 1]
    /\ tickLog = [e \in Evaluators |-> <<>>]
    /\ histStart = [e \in Evaluators |-> 0]
    /\ performed = [r \in RuleIds |-> 0]
    /\ lastBatch = <<>>
    /\ cpc = [p \in Collectors \cup Jobs |-> "idle"]
    /\ cbatch = [p \in Collectors \cup Jobs |-> <<>>]
    /\ cpos = [p \in Collectors |-> 1]
    /\ cmatch = [p \in Collectors |-> 0]
    /\ request = <<>>
    /\ response = <<>>
    /\ created = 0
    /\ lastCall = [op |-> "none"]
    /\ is_monitoring = FALSE
    /\ monitor_task = "none"

\* The state after construction, on an empty rule collection
InitCommon == InitWith(<<>>)

\* execute_query, called by the query API
RunQuery(req) ==
    /\ request' = req
    /\ response' = QueryResult(klines, req)
    /\ UNCHANGED <<klines, alertVars, ingestVars, serviceVars>>

\* An exchange that holds n bars, all with the same close
FlatMarket(n) == [k \in 1..n |-> 1]

\* The evaluator's side: the store is fed by InsertKline
InitAlert == InitCommon /\ market = <<>>

\* The collector's side: the exchange holds a full history
InitIngest == InitCommon /\ market = FlatMarket(HistoricalLimit)

\* A once rule that has triggered: it stays active and is not due any more
TriggeredOnce(id) ==
    [NewRule(id, <<"1h">>, "once", TRUE) EXCEPT !.last_triggered_at = 0,
                                                !.trigger_count = 1]

\* A rule collection that holds as many triggered once rules as list_alert_rules
\* returns by default, and after them a rule that triggers every time
ManyRules ==
    [i \in 1..ListLimit |-> TriggeredOnce(MaxRules + i)]
        \o <<NewRule(1, <<"1h">>, "every_time", TRUE)>>

\* The evaluator's side on a large rule collection
InitLimit == InitWith(ManyRules) /\ market = <<>>

\* Two collectors: the exchange holds a short history
InitIngestConc == InitCommon /\ market = FlatMarket(MaxBars)

EvaluatorStep(e) ==
    \/ \E ok \in BOOLEAN : LoadRules(e, ok)
    \/ \E fault \in Faults, resp \in WebhookResponses, t \in Soon(now) :
          CheckRule(e, fault, resp, t)
    \/ FinishTick(e)

Environment ==
    \/ \E tfs \in RuleTimeframes, freq \in Frequencies : CreateRule(tfs, freq, TRUE)
    \/ \E t \in Instants : Advance(t)
    \/ \E tf \in FeedTimeframes, ts \in 1..MaxBars, close \in Closes :
          InsertKline(tf, ts, close)

\* One evaluator: the monitor loop's ticks, one after the other
Next == Environment \/ EvaluatorStep(1)

Spec == InitAlert /\ [][Next]_vars

\* Two evaluators on the same store
EnvironmentConc ==
    \/ \E tfs \in RuleTimeframes, freq \in ConcFrequencies :
          Len(rules) < MaxRulesConc /\ CreateRule(tfs, freq, TRUE)
    \/ \E t \in Instants : Advance(t)
    \/ \E tf \in FeedTimeframes, ts \in 1..MaxBars, close \in Closes :
          InsertKline(tf, ts, close)

NextConc == EnvironmentConc \/ \E e \in Evaluators : EvaluatorStep(e)

SpecConc == InitAlert /\ [][NextConc]_vars

\* Backfill and incremental ticks, one at a time, on BTC: the exchange does not
\* answer for ETH
NextIngest ==
    \/ \E close \in Closes : MarketTick(close, HistoricalLimit + MaxNewBars)
    \/ \E fetched \in BOOLEAN, failAt \in {0, 1, HistoricalLimit - 1, HistoricalLimit} :
          CollectAndStoreData(<<fetched, FALSE>>, <<1, failAt>>)
    \/ \E fetched \in BOOLEAN, failAt \in 0..LatestLimit :
          CollectLatestData(<<fetched, FALSE>>, <<1, failAt>>)
    \/ \E close \in Closes : MarketUpdate(close)
    \/ IndicatorPass("BTC", "1h")
    \/ SignalPass("BTC", "1h")

SpecIngest == InitIngest /\ [][NextIngest]_vars

CollectorStep(p) ==
    \/ Fetch(p)
    \/ \E ok \in BOOLEAN : CheckExists(p, ok)
    \/ UpsertMatch(p)
    \/ UpsertWrite(p)
    \/ TriggerCalc(p)
    \/ FinishCollect(p)

\* A backfill and an incremental tick on the same store at the same time
NextIngestConc ==
    \/ \E close \in Closes : MarketTick(close, MaxBars + MaxNewBars)
    \/ \E p \in Collectors : CollectorStep(p)

SpecIngestConc == InitIngestConc /\ [][NextIngestConc]_vars

\* The scheduler's three jobs on the same store at the same time: the data
\* collection, the indicator calculation and the signal detection, after a backfill
NextSched ==
    \/ \E close \in Closes : MarketTick(close, HistoricalLimit + MaxNewBars)
    \/ CollectAndStoreData(<<TRUE, FALSE>>, <<1, 0>>)
    \/ Fetch("latest")
    \/ CheckExists("latest", TRUE)
    \/ UpsertMatch("latest")
    \/ UpsertWrite("latest")
    \/ TriggerCalc("latest")
    \/ FinishCollect("latest")
    \/ \E j \in Jobs : JobLoad(j, "BTC", "1h")
    \/ \E j \in Jobs : JobWrite(j, "BTC", "1h")

SpecSched == InitIngest /\ [][NextSched]_vars

\* Backfill, incremental ticks and the batch passes, one at a time, on both symbols
NextPairs ==
    \/ \E close \in Closes : MarketTick(close, HistoricalLimit + MaxNewBars)
    \/ \E btc, eth \in BOOLEAN : CollectAndStoreData(<<btc, eth>>, <<1, 0>>)
    \/ \E btc, eth \in BOOLEAN : CollectLatestData(<<btc, eth>>, <<1, 0>>)
    \/ \E k \in DOMAIN Symbols : IndicatorPass(Symbols[k], "1h")
    \/ \E k \in DOMAIN Symbols : SignalPass(Symbols[k], "1h")

SpecPairs == InitIngest /\ [][NextPairs]_vars

\* Queries on a store that incremental ticks fill from a short history
NextQuery ==
    \/ \E close \in Closes : MarketTick(close, MaxBars + MaxNewBars)
    \/ \E close \in Closes : MarketUpdate(close)
    \/ \E fetched \in BOOLEAN : CollectLatestData(<<fetched, FALSE>>, <<1, 0>>)
    \/ \E req \in QueryRequests : RunQuery(req)

SpecQuery == InitIngestConc /\ [][NextQuery]_vars

\* Queries on the indicator fields of a store that backfills, incremental ticks
\* and indicator passes fill
NextFields ==
    \/ \E close \in Closes : MarketTick(close, HistoricalLimit + MaxNewBars)
    \/ \E btc \in BOOLEAN : CollectAndStoreData(<<btc, FALSE>>, <<1, 0>>)
    \/ \E btc \in BOOLEAN : CollectLatestData(<<btc, FALSE>>, <<1, 0>>)
    \/ IndicatorPass("BTC", "1h")
    \/ \E req \in FieldRequests : RunQuery(req)

SpecFields == InitIngest /\ [][NextFields]_vars

\* Queries on the signals of a store that backfills and incremental ticks, which
\* compute the signals of the latest bar, fill while the forming bar trades on
NextSignals ==
    \/ \E close \in Closes : MarketTick(close, HistoricalLimit + MaxNewBars)
    \/ \E close \in Closes : MarketUpdate(close)
    \/ CollectAndStoreData(<<TRUE, FALSE>>, <<1, 0>>)
    \/ CollectLatestData(<<TRUE, FALSE>>, <<1, 0>>)
    \/ \E req \in SignalRequests : RunQuery(req)

SpecSignals == InitIngest /\ [][NextSignals]_vars

\* Queries on the bars of the last hours while the clock advances and bars of two
\* timeframes are stored
NextWindow ==
    \/ \E t \in Instants : Advance(t)
    \/ \E tf \in {"1h", "1d"}, ts \in 1..MaxBars : InsertKline(tf, ts, 1)
    \/ \E req \in WindowRequests : RunQuery(req)

SpecWindow == InitAlert /\ [][NextWindow]_vars

\* The monitor task of one evaluator, started and stopped on its event loop, next
\* to the processes that write rules and bars
NextMonitor ==
    \/ StartMonitoring
    \/ StopMonitoring
    \/ \E ok \in BOOLEAN : MonitorTick(ok)
    \/ \E resp \in {[status |-> 200, body |-> "success_true"], [status |-> 500, body |-> "not_json"]} :
          CheckRule(1, "none", resp, now)
    \/ FinishTick(1)
    \/ \E freq \in {"every_time", "once"} : CreateRule(<<"1h">>, freq, TRUE)
    \/ \E ts \in 1..MaxBars, close \in Closes : InsertKline("1h", ts, close)

SpecMonitor == InitAlert /\ [][NextMonitor]_vars

\* The evaluator's ticks while the user switches rules on and off
NextToggle ==
    \/ \E active \in BOOLEAN : CreateRule(<<"1h">>, "every_time", active)
    \/ \E id \in RuleIds, active \in BOOLEAN :
          UpdateAlertRule(id, [f \in {"is_active"} |-> active])
    \/ \E ts \in 1..MaxBars, close \in Closes : InsertKline("1h", ts, close)
    \/ \E ok \in BOOLEAN : LoadRules(1, ok)
    \/ \E resp \in {[status |-> 200, body |-> "success_true"],
                     [status |-> 0, body |-> "transport_error"]} :
          CheckRule(1, "none", resp, now)
    \/ FinishTick(1)

SpecToggle == InitAlert /\ [][NextToggle]_vars

\* The evaluator's ticks on rules that list two timeframes, in either order,
\* while bars of both timeframes arrive
NextMulti ==
    \/ \E tfs \in {<<"1h", "1d">>, <<"1d", "1h">>} : CreateRule(tfs, "every_time", TRUE)
    \/ \E tf \in {"1h", "1d"}, ts \in 1..MaxBars, close \in Closes :
          InsertKline(tf, ts, close)
    \/ LoadRules(1, TRUE)
    \/ \E resp \in {[status |-> 200, body |-> "success_true"],
                     [status |-> 0, body |-> "transport_error"]} :
          CheckRule(1, "none", resp, now)
    \/ FinishTick(1)

SpecMulti == InitAlert /\ [][NextMulti]_vars

\* The monitor task whose ticks meet failures of the store and of the receiver,
\* on once rules
MonitorStep ==
    \/ \E ok \in BOOLEAN : MonitorTick(ok)
    \/ \E fault \in Faults, resp \in WebhookResponses : CheckRule(1, fault, resp, now)
    \/ MonitorSleep

NextLoop ==
    \/ StartMonitoring
    \/ StopMonitoring
    \/ MonitorStep
    \/ \E active \in BOOLEAN : CreateRule(<<"1h">>, "once", active)
    \/ \E ts \in 1..MaxBars, close \in Closes : InsertKline("1h", ts, close)

\* The event loop runs the monitor task whenever it can make a step: the sleep
\* ends and the calls of a tick return
SpecLoop == InitAlert /\ [][NextLoop]_vars /\ WF_vars(MonitorStep)

\* The retention pass next to the collector, with the clock around thirty days
\* after the first bars.  Bar timestamps are in the units of the clock and a bar
\* is stored once it has opened.
NextRetention ==
    \/ \E t \in RetentionInstants : Advance(t)
    \/ \E tf \in Timeframes, ts \in 1..MaxBars : ts <= now /\ InsertKline(tf, ts, 1)
    \/ \E failAt \in 0..2 : DataCleanupTask(failAt)

SpecRetention == InitAlert /\ [][NextRetention]_vars

\* The dispatch of the alerts of due, matching rules, with every answer of
\* the receiver
NextDispatch ==
    \/ \E freq \in {"every_time", "once"} : CreateRule(<<"1h">>, freq, TRUE)
    \/ \E ts \in 1..MaxBars, close \in Closes : InsertKline("1h", ts, close)
    \/ \E i \in RuleIds, resp \in WebhookResponses : TriggerAlert(i, resp)

SpecDispatch == InitAlert /\ [][NextDispatch]_vars

\* The evaluator's ticks on a large rule collection, of which a rule can be deleted
NextLimit ==
    \/ \E ts \in 1..MaxBars, close \in Closes : InsertKline("1h", ts, close)
    \/ DeleteAlertRule(MaxRules + 1)
    \/ \E ok \in BOOLEAN : LoadRules(1, ok)
    \/ \E resp \in {[status |-> 200, body |-> "success_true"],
                     [status |-> 0, body |-> "transport_error"]} :
          CheckRule(1, "none", resp, now)
    \/ FinishTick(1)

SpecLimit == InitLimit /\ [][NextLimit]_vars

\* The rule registry under the API, and the evaluator's ticks on its rules
NextRules ==
    \/ \E rule \in RuleInputs : CreateAlertRule(rule)
    \/ \E id \in RuleIds, updates \in RuleUpdates : UpdateAlertRule(id, updates)
    \/ \E id \in RuleIds : DeleteAlertRule(id)
    \/ \E id \in RuleIds : GetRule(id)
    \/ \E ok \in BOOLEAN : LoadRules(1, ok)
    \/ \E fault \in {"none", "query"} : CheckRule(1, fault, [status |-> 0, body |-> "transport_error"], now)
    \/ FinishTick(1)

SpecRules == InitAlert /\ [][NextRules]_vars

----------------------------------------------------------------------------
(* Properties of the evaluator *)

Last(s) == s[Len(s)]

\* A step in which evaluator e goes through one iteration of its for loop
Evaluates(e) == Len(tickLog'[e]) = Len(tickLog[e]) + 1

\* Evaluator e has gone through all the rules of its tick
TickDone(e) == pc[e] = "checking" /\ idx[e] > Len(snapshot[e])

RuleById(rid) == CHOOSE r \in Range(rules) : r.id = rid

\* C1: across any sequence of ticks of the evaluator, a rule with frequency
\* once has at most one trigger-history record, and is triggered at most once:
\* with trigger_count > 0 it is skipped
C1_OnceAtMostOneRecord ==
    \A i \in DOMAIN rules :
        rules[i].frequency = "once" =>
            /\ CountIn(history, 1, rules[i].id) <= 1
            /\ rules[i].trigger_count <= 1

\* A once rule has its record, and a later tick found it not due
C1_OnceSkippedLater ==
    \E i \in DOMAIN rules, k \in DOMAIN tickLog[1] :
        /\ rules[i].frequency = "once"
        /\ CountIn(history, 1, rules[i].id) = 1
        /\ tickLog[1][k].rule_id = rules[i].id
        /\ ~tickLog[1][k].due

\* C2: any two trigger-history records of one hourly rule are at least one
\* hour apart, and of one daily rule at least 24 hours apart
C2_RecordsSpacedByFrequency ==
    \A i, j \in DOMAIN history :
        (i < j /\ history[i].rule_id = history[j].rule_id) =>
            LET freq == RuleById(history[i].rule_id).frequency
                gap == history[j].trigger_time - history[i].trigger_time
            IN  /\ freq = "hourly" => gap >= HourUnits
                /\ freq = "daily" => gap >= DayUnits

\* A daily rule has two records, exactly 24 hours apart
C2_DailyTwice ==
    \E i, j \in DOMAIN history :
        /\ i < j
        /\ history[i].rule_id = history[j].rule_id
        /\ RuleById(history[i].rule_id).frequency = "daily"
        /\ history[j].trigger_time - history[i].trigger_time = DayUnits

\* C3: at the end of a tick in which no store operation failed for it, a rule
\* that was due and whose query matched has exactly one new trigger-history
\* record, whatever the webhook answered, and any other rule has none
C3_OneRecordPerDueMatch ==
    \A e \in Evaluators :
        TickDone(e) =>
            \A k \in DOMAIN tickLog[e] :
                LET entry == tickLog[e][k]
                    added == CountIn(history, histStart[e] + 1, entry.rule_id)
                IN  entry.fault \in {"none", "validation"} =>
                        added = IF entry.due /\ entry.matched THEN 1 ELSE 0

C5_NoLostIncrement ==
    (\A e \in Evaluators : pc[e] = "idle") =>
        \A i \in DOMAIN rules :
            /\ rules[i].trigger_count = performed[rules[i].id]
            /\ rules[i].frequency = "once" => performed[rules[i].id] <= 1

\* C6: a rule is triggered only when the latest stored bar of one of its
\* timeframes satisfies its predicate
C6_TriggerOnlyOnLatestBar ==
    [][\A e \in Evaluators :
          (Evaluates(e) /\ Last(tickLog'[e]).posted) =>
              LET rule == snapshot[e][idx[e]]
                  symbolOnly == [f \in {<<"symbol">>} |-> [op |-> "eq", value |-> rule.symbol]]
                  latest == ExecuteQueryFrom(klines, symbolOnly, rule.timeframes, 1, 1)
              IN  \E k \in DOMAIN latest :
                      DocMatches(latest[k], BuildSingleCondition(rule.trigger_conditions))]_vars

C8_StoreFailureLeavesRule ==
    [][\A e \in Evaluators :
          (Evaluates(e) /\ Last(tickLog'[e]).fault \in {"query", "update", "insert"}) =>
              rules' = rules]_vars

----------------------------------------------------------------------------
(* Properties of the ingestion *)

\* The candle a row carries
Candle(d) == [symbol |-> d.symbol, timeframe |-> d.timeframe,
              timestamp |-> d.timestamp, close |-> d.close]

SameCandles(a, b) ==
    Len(a) = Len(b) /\ {Candle(a[i]) : i \in DOMAIN a} = {Candle(b[i]) : i \in DOMAIN b}

\* The indicator and signal fields of the latest bar of the symbol and timeframe
LatestFields(coll, symbol, tf) ==
    LET latest == GetHistoricalData(coll, symbol, tf, 1)
    IN  [k \in DOMAIN latest |-> [ma |-> latest[k].ma, signals |-> latest[k].signals]]

\* C9: no two candle rows share (symbol, timeframe, timestamp), with a backfill
\* and an incremental tick interleaved on the same store
C9_NaturalKeyUnique ==
    \A i, j \in DOMAIN klines :
        i < j => ~SameKey(klines[j], klines[i].symbol, klines[i].timeframe,
                          klines[i].timestamp)

\* C10: an incremental tick given the same bars as the incremental tick before
\* it leaves the same candle rows, as many as before, and, on a latest bar whose
\* moving averages were computed, the same indicator and signal values
C10_SecondRunChangesNothing ==
    [][(lastBatch # <<>> /\ lastBatch' = lastBatch /\ market' = market) =>
          /\ SameCandles(klines, klines')
          /\ \A k \in DOMAIN LatestFields(klines, "BTC", "1h") :
                LatestFields(klines, "BTC", "1h")[k].ma # <<>> =>
                    LatestFields(klines', "BTC", "1h") = LatestFields(klines, "BTC", "1h")]_vars

\* A step that is an incremental tick to which the exchange answered
IncrementalTick == lastBatch' # <<>> /\ market' = market

\* C11: an incremental tick leaves the open, high, low, close and volume of every
\* row that was in the store before it as they were
C11_ExistingBarsUntouched ==
    [][IncrementalTick =>
          \A i \in DOMAIN klines :
              i \in DOMAIN klines' /\ Candle(klines'[i]) = Candle(klines[i])]_vars

\* C12: after an incremental tick, every bar the exchange reported in it is
\* stored with the values reported, also a bar that was stored before with the
\* values it had while forming
C12_FormingBarOverwritten ==
    \A k \in DOMAIN lastBatch :
        \E i \in DOMAIN klines :
            /\ SameKey(klines[i], lastBatch[k].symbol, lastBatch[k].timeframe,
                       lastBatch[k].timestamp)
            /\ klines[i].close = lastBatch[k].close

\* The rows of a symbol and timeframe
RowsOf(coll, symbol, tf) == Find(coll, KeyQuery(symbol, tf))

C14_SignalsAfterIndicators ==
    (cpc["signals"] = "loaded" /\ Len(cbatch["signals"]) >= MinBars) =>
        Last(cbatch["signals"]).ma # <<>>

\* C15: an indicator pass for a symbol and timeframe changes nothing but the
\* indicator fields of the latest bar of that symbol and timeframe
C15_IndicatorsOnLatestOnly ==
    \A symbol \in Range(Symbols) :
        LET after == CalculateAllIndicators(klines, symbol, "1h")
            latest == GetHistoricalData(klines, symbol, "1h", 1)
        IN  /\ Len(after) = Len(klines)
            /\ \A i \in DOMAIN klines :
                  after[i] # klines[i] =>
                      /\ latest # <<>>
                      /\ SameKey(klines[i], symbol, "1h", latest[1].timestamp)

\* The latest BTC bar carries its moving averages, the BTC bar before it does
\* not, and ETH bars are stored beside them
C15_LatestWrittenOthersNot ==
    /\ Len(RowsOf(klines, "ETH", "1h")) > 0
    /\ LET data == GetHistoricalData(klines, "BTC", "1h", 2)
       IN  Len(data) = 2 /\ data[2].ma # <<>> /\ data[1].ma = <<>>

\* The number of bars of the symbol and timeframe of row i up to and including it
BarsUpTo(coll, i) ==
    Cardinality({j \in DOMAIN coll :
                    /\ coll[j].symbol = coll[i].symbol
                    /\ coll[j].timeframe = coll[i].timeframe
                    /\ coll[j].timestamp <= coll[i].timestamp})

\* C16: once the indicators of the latest bar of a symbol and timeframe are
\* written, a bar of it carries indicators if and only if at least 50 bars
\* exist up to and including it
C16_IndicatorsIffFiftyBars ==
    \A symbol \in Range(Symbols) :
        LET latest == GetHistoricalData(klines, symbol, "1h", 1)
        IN  (latest # <<>> /\ latest[1].ma # <<>>) =>
                \A i \in DOMAIN klines :
                    (klines[i].symbol = symbol /\ klines[i].timeframe = "1h") =>
                        (klines[i].ma # <<>> <=> BarsUpTo(klines, i) >= MinBars)

\* C17: in an incremental tick, a symbol whose fetch failed keeps its rows as
\* they were, and every bar fetched for another symbol is in the store after
\* the tick
C17_FetchFailureIsolated ==
    [][IncrementalTick =>
          /\ \A symbol \in Range(Symbols) :
                (\A k \in DOMAIN lastBatch' : lastBatch'[k].symbol # symbol) =>
                    RowsOf(klines', symbol, "1h") = RowsOf(klines, symbol, "1h")
          /\ \A k \in DOMAIN lastBatch' :
                KlineExists(klines', lastBatch'[k].symbol, lastBatch'[k].timeframe,
                            lastBatch'[k].timestamp)]_vars

\* The last tick got no answer for BTC, and the ETH bars it fetched are stored
C17_EthStoredWithoutBtc ==
    /\ lastBatch # <<>>
    /\ \A k \in DOMAIN lastBatch :
          /\ lastBatch[k].symbol = "ETH"
          /\ KlineExists(klines, "ETH", "1h", lastBatch[k].timestamp)
    /\ Len(RowsOf(klines, "BTC", "1h")) = 0

\* The rows of data, as a set
Returned == IF "data" \in DOMAIN response THEN Range(response.data) ELSE {}

\* C18: every row execute_query returns is of the requested symbol, of a
\* requested timeframe, and satisfies the requested conditions
C18_ImplicitFilterConjoined ==
    (request # <<>> /\ response # QueryFailed) =>
        \A row \in Returned :
            /\ row.symbol = request.symbol
            /\ row.timeframe \in Range(request.timeframes)
            /\ DocMatches(row, BuildConditionQuery(request.conditions))

\* The rows of the store of a symbol and one of the timeframes
StoredRows(coll, symbol, tfs) ==
    {i \in DOMAIN coll : coll[i].symbol = symbol /\ coll[i].timeframe \in Range(tfs)}

\* C19: total_records is the number of stored rows of the requested symbol and
\* timeframes, whatever the conditions, and matched_records is the number of
\* rows in data
C19_TotalIsUnfiltered ==
    [][request' # <<>> /\ response' # QueryFailed /\ klines' = klines =>
          /\ response'.total_records =
                Cardinality(StoredRows(klines, request'.symbol, request'.timeframes))
          /\ response'.matched_records = Len(response'.data)]_vars

\* The comparisons with a number on a field that holds an indicator
IsIndicatorComparison(cond) ==
    /\ "conditions" \notin DOMAIN cond
    /\ cond.field \in {"rsi", "ma.ma_5"}
    /\ cond.operator \in {"gt", "gte", "lt", "lte", "between", "eq", "ne"}

\* C20: a row returned for a comparison of an indicator with a number holds a
\* number under that indicator, neither null nor nothing
C20_NullNeverMatched ==
    (request # <<>> /\ IsIndicatorComparison(request.conditions)) =>
        \A row \in Returned :
            Comparable(row, MapFieldName(request.conditions.field)) # {}

\* A tree with a NOT node that has not exactly one child, a between leaf that
\* has not exactly two values, or a before or after leaf whose value is no date
RECURSIVE Malformed(_)
Malformed(cond) ==
    IF "conditions" \in DOMAIN cond
    THEN \/ cond.operator = "not" /\ Len(cond.conditions) # 1
         \/ \E k \in DOMAIN cond.conditions : Malformed(cond.conditions[k])
    ELSE \/ cond.operator = "between" /\ Len(cond.value) # 2
         \/ cond.operator \in {"before", "after"} /\ ~IsIsoDate(cond.value)

\* A tree of AND and OR nodes, each with a child at least, over leaves
RECURSIVE AndOrTree(_)
AndOrTree(cond) ==
    "conditions" \in DOMAIN cond =>
        /\ cond.operator \in {"and", "or"}
        /\ Len(cond.conditions) >= 1
        /\ \A k \in DOMAIN cond.conditions : AndOrTree(cond.conditions[k])

\* C21: execute_query raises, returning nothing, on a malformed conditions tree,
\* and returns a result on a well-formed tree of AND and OR nodes
C21_MalformedTreeRejected ==
    request # <<>> =>
        /\ Malformed(request.conditions) => response = QueryFailed
        /\ (AndOrTree(request.conditions) /\ ~Malformed(request.conditions)) =>
              response # QueryFailed

\* C22: a rule whose trigger_conditions are malformed is never stored and never
\* loaded by the evaluator
C22_MalformedRuleNeverStored ==
    /\ \A i \in DOMAIN rules : ~Malformed(rules[i].trigger_conditions)
    /\ \A e \in DOMAIN snapshot : \A i \in DOMAIN snapshot[e] :
           ~Malformed(snapshot[e][i].trigger_conditions)

\* The fields of a rule that the request body of a creation sets
GivenFields ==
    {"name", "symbol", "timeframes", "trigger_conditions", "frequency", "is_active"}

\* get_alert_rule of the id a creation has just returned gives a rule with that
\* id, which no stored rule had, and with the given fields as the body gave them
CreatedRuleReadBack ==
    LET got == GetAlertRule(rules', lastCall'.returned.id)
    IN  /\ WithId(rules, lastCall'.returned.id) = {}
        /\ got # NoRule
        /\ got.id = lastCall'.returned.id
        /\ \A f \in GivenFields : got[f] = lastCall'.given[f]

C28_UnknownFieldRejected ==
    [][(/\ lastCall' # lastCall
        /\ lastCall'.op = "update"
        /\ ~(DOMAIN lastCall'.given \subseteq RuleSchema)) =>
            /\ rules' = rules
            /\ ~lastCall'.returned.ok]_vars

\* The moving average of the period that the indicator engine has written on a
\* bar, if it has
ComputedMa(doc, period) ==
    IF MaKey(period) \in DOMAIN doc.ma THEN {doc.ma[MaKey(period)]} ELSE {}

\* The period of a moving-average query field
MaFieldPeriod(field) ==
    CASE field = "ma.ma_5" -> 5 [] field = "ma.ma_10" -> 10
      [] field = "ma.ma_20" -> 20 [] field = "ma.ma_50" -> 50

\* The bars of the request's symbol and timeframes whose computed moving average
\* is greater than the value of the leaf, by timeframe and timestamp as a result
\* row shows them
BarsWithMaAbove(coll, req) ==
    {<<d.timeframe, IsoFormat(d.timestamp)>> : d \in
        {d \in Range(coll) :
            /\ d.symbol = req.symbol
            /\ d.timeframe \in Range(req.timeframes)
            /\ \E v \in ComputedMa(d, MaFieldPeriod(req.conditions.field)) :
                  v > req.conditions.value}}

\* C23: a query {ma.ma_N gt v} returns exactly the bars whose computed moving
\* average of period N is greater than v
C23_MaPathMatchesWrittenPath ==
    [][(/\ request' # request
        /\ request'.conditions.field \in {"ma.ma_5", "ma.ma_10", "ma.ma_20", "ma.ma_50"}
        /\ request'.conditions.operator = "gt") =>
            /\ response' # QueryFailed
            /\ {<<r.timeframe, r.timestamp>> : r \in Range(response'.data)}
                   = BarsWithMaAbove(klines, request')]_vars

\* C24: a tick that is in flight ends only when it has gone through all the
\* rules it loaded, so stop_monitoring never cuts one short, and a tick starts
\* only while is_monitoring is set, so none starts once stop_monitoring has
\* returned
C24_StopLetsTickComplete ==
    [][/\ (pc[1] = "checking" /\ pc'[1] # "checking") => idx[1] > Len(snapshot[1])
       /\ (pc[1] # "checking" /\ pc'[1] = "checking") => (is_monitoring /\ is_monitoring')
       /\ (lastCall' # lastCall /\ lastCall'.op = "stop") =>
             (~is_monitoring' /\ monitor_task' # "active" /\ history' = history
              /\ rules' = rules)]_vars

\* stop_monitoring has returned after ticks that triggered a rule, and a rule
\* that is active, due and matching is left for the tick that does not start
C24_StoppedWithRuleDue ==
    /\ lastCall.op = "stop"
    /\ ~is_monitoring
    /\ monitor_task = "done"
    /\ Len(history) > 0
    /\ \E i \in DOMAIN rules :
          /\ rules[i].is_active
          /\ ShouldCheckRule(rules[i], now)
          /\ Len(ExecuteQuery(klines, rules[i].symbol, rules[i].timeframes,
                              rules[i].trigger_conditions, CheckLimit)) > 0

\* A bar of 5m or 15m that opened more than thirty days before the instant t
Expired(d, t) == d.timeframe \in {"5m", "15m"} /\ d.timestamp < t - RetentionUnits

\* C25: a stored bar disappears only if it is a 5m or 15m bar that opened more
\* than thirty days before now, whatever the operation, and after a retention
\* pass without failure no such bar is left while every other bar is still there
C25_RetentionDeletesExactlyOld ==
    [][/\ \A d \in Range(klines) \ Range(klines') : Expired(d, now)
       /\ (lastCall' # lastCall /\ lastCall'.op = "cleanup" /\ lastCall'.returned.ok) =>
             Range(klines') = {d \in Range(klines) : ~Expired(d, now)}]_vars

\* A retention pass has deleted a 5m bar that opened more than thirty days ago
\* and left the 5m bar that opened exactly thirty days ago, the 15m bars of the
\* same age having gone or stayed the same way, and a 1h bar as old as the
\* deleted one
C25_OldGoneBoundaryKept ==
    /\ lastCall.op = "cleanup"
    /\ lastCall.returned.ok
    /\ lastCall.at = now
    /\ now = RetentionUnits + 2
    /\ ~KlineExists(klines, "BTC", "5m", 1)
    /\ KlineExists(klines, "BTC", "5m", 2)
    /\ ~KlineExists(klines, "BTC", "15m", 1)
    /\ KlineExists(klines, "BTC", "15m", 2)
    /\ KlineExists(klines, "BTC", "1h", 1)
    /\ KlineExists(klines, "BTC", "1d", 1)

\* The answers with an HTTP status of 2xx and a body that is JSON with a truthy
\* success field
SentByReceiver(resp) ==
    /\ resp.status \in 200..299
    /\ resp.body \in {"success_true", "success_not_boolean"}

\* C26: the record of a trigger has message_sent set exactly when the webhook
\* answered 2xx with a truthy success field, and otherwise carries the error or
\* the body of the answer
C26_MessageSentIffAccepted ==
    (lastCall.op = "trigger" /\ "message_sent" \in DOMAIN lastCall.returned) =>
        /\ lastCall.returned.message_sent <=> SentByReceiver(lastCall.given)
        /\ ~lastCall.returned.message_sent =>
              DOMAIN lastCall.returned.webhook_response \cap {"error", "body"} # {}

\* C29: the rules a tick loads are all the active rules of the collection,
\* however many they are
C29_EveryActiveRuleLoaded ==
    [][(pc[1] = "idle" /\ pc'[1] = "checking" /\ Len(snapshot'[1]) > 0) =>
          \A i \in DOMAIN rules :
              rules[i].is_active =>
                  \E k \in DOMAIN snapshot'[1] : snapshot'[1][k].id = rules[i].id]_vars

\* The closed taxonomy of signal tags
SignalTaxonomy ==
    {"RSI_OVERSOLD", "RSI_OVERBOUGHT", "RSI_DIVERGENCE_BULLISH", "RSI_DIVERGENCE_BEARISH",
     "MACD_BULLISH_CROSS", "MACD_BEARISH_CROSS", "MACD_ZERO_CROSS_UP", "MACD_ZERO_CROSS_DOWN",
     "MACD_DIVERGENCE_BULLISH", "MACD_DIVERGENCE_BEARISH",
     "MA_GOLDEN_CROSS", "MA_DEATH_CROSS", "MA_BULLISH_ARRANGEMENT", "MA_BEARISH_ARRANGEMENT",
     "PRICE_ABOVE_MA50", "PRICE_BELOW_MA50",
     "BB_UPPER_TOUCH", "BB_LOWER_TOUCH", "BB_MIDDLE_CROSS_UP", "BB_MIDDLE_CROSS_DOWN",
     "BB_SQUEEZE", "BB_EXPANSION",
     "KDJ_OVERSOLD", "KDJ_OVERBOUGHT", "KDJ_GOLDEN_CROSS", "KDJ_DEATH_CROSS",
     "STOCH_OVERSOLD", "STOCH_OVERBOUGHT", "STOCH_BULLISH_CROSS", "STOCH_BEARISH_CROSS",
     "CCI_OVERSOLD", "CCI_OVERBOUGHT", "CCI_ZERO_CROSS_UP", "CCI_ZERO_CROSS_DOWN",
     "VOLUME_SPIKE", "VOLUME_DRY"}

RowsSince(coll, req, t) ==
    {ProcessResultItem(coll[i]) :
        i \in {j \in StoredRows(coll, req.symbol, req.timeframes) : coll[j].timestamp >= t}}

TagsOf(cond) == Range(IF cond.value[1] = "str" THEN <<cond.value[2]>> ELSE cond.value[2])

\* The stored rows of the requested symbol and timeframes whose signals share a
\* tag with the leaf, for contains, or share none, for not_contains
RowsByTags(coll, req) ==
    {i \in StoredRows(coll, req.symbol, req.timeframes) :
        (coll[i].signals \cap TagsOf(req.conditions) # {})
            <=> (req.conditions.operator = "contains")}

C33_LoopSurvivesFailingTick ==
    /\ (pc[1] = "checking" /\ TickRaised(1))
          ~> (~is_monitoring \/ (pc[1] = "checking" /\ tickLog[1] = <<>>))
    /\ (pc[1] = "checking") ~> (pc[1] = "idle")
    /\ (is_monitoring /\ pc[1] = "idle") ~> (~is_monitoring \/ pc[1] = "checking")

\* Monitoring is on and a tick is in flight that found the first rule not due
\* any more: an earlier tick triggered it and failed to store the history record
C33_TickAfterFailedTick ==
    /\ is_monitoring
    /\ pc[1] = "checking"
    /\ performed[1] = 1
    /\ history = <<>>
    /\ \E k \in DOMAIN tickLog[1] : tickLog[1][k].rule_id = 1 /\ ~tickLog[1][k].due

\* A tree with an AND or OR node that has no child
RECURSIVE HasChildlessAndOr(_)
HasChildlessAndOr(cond) ==
    /\ "conditions" \in DOMAIN cond
    /\ \/ cond.operator \in {"and", "or"} /\ Len(cond.conditions) = 0
       \/ \E k \in DOMAIN cond.conditions : HasChildlessAndOr(cond.conditions[k])

\* C34: execute_query raises on a conditions tree with an AND or OR node that
\* has no child, so such a tree never selects a bar
C34_ChildlessNodeRejected ==
    (request # <<>> /\ HasChildlessAndOr(request.conditions)) => response = QueryFailed

\* The trigger times of the history records of a rule
TriggerTimes(rid) == {history[k].trigger_time : k \in {j \in DOMAIN history : history[j].rule_id = rid}}

\* C35: the trigger_count of every rule is the number of history records that
\* carry its id, and its last_triggered_at is the trigger time of the newest of
\* them
C35_CountMatchesHistory ==
    \A i \in DOMAIN rules :
        /\ rules[i].trigger_count = CountIn(history, 1, rules[i].id)
        /\ \A t \in TriggerTimes(rules[i].id) : t <= rules[i].last_triggered_at
        /\ rules[i].last_triggered_at \in TriggerTimes(rules[i].id) \cup {NoTime}
        /\ TriggerTimes(rules[i].id) # {} => rules[i].last_triggered_at # NoTime

\* The ids of the stored rules that are switched off
InactiveIds == {rules[i].id : i \in {j \in DOMAIN rules : ~rules[j].is_active}}

\* The ids of the rules evaluator e loaded for its tick
SnapshotIds(e) == {snapshot[e][k].id : k \in DOMAIN snapshot[e]}

\* C36: a tick loads none of the rules that are inactive when it starts and
\* keeps what it loaded to its end, and each of its iterations evaluates a rule
\* it loaded, leaves every other rule as it is and appends history records of
\* loaded rules only
C36_InactiveRuleLeftAlone ==
    [][/\ (pc[1] = "idle" /\ pc'[1] = "checking") =>
             \A k \in DOMAIN snapshot'[1] : snapshot'[1][k].id \notin InactiveIds
       /\ (pc[1] = "checking" /\ pc'[1] = "checking") => snapshot'[1] = snapshot[1]
       /\ Evaluates(1) =>
             /\ Last(tickLog'[1]).rule_id \in SnapshotIds(1)
             /\ Len(rules') = Len(rules)
             /\ \A i \in DOMAIN rules :
                   rules[i].id \notin SnapshotIds(1) => rules'[i] = rules[i]
             /\ \A k \in (Len(history) + 1)..Len(history') :
                   history'[k].rule_id \in SnapshotIds(1)]_vars

\* A tick that loaded the second rule alone has triggered it and gone through
\* its rules, while the first rule, inactive when the tick started and switched
\* on since, matches a bar and was neither evaluated nor triggered
C36_SwitchedOnRuleSkipped ==
    /\ TickDone(1)
    /\ SnapshotIds(1) = {2}
    /\ Len(tickLog[1]) = 1
    /\ Len(history) > histStart[1]
    /\ \E i \in DOMAIN rules :
          /\ rules[i].id = 1
          /\ rules[i].is_active
          /\ rules[i].trigger_count = 0
          /\ Len(ExecuteQuery(klines, rules[i].symbol, rules[i].timeframes,
                              rules[i].trigger_conditions, CheckLimit)) > 0
    /\ \A k \in DOMAIN history : history[k].rule_id = 2

\* C37: whatever start_monitoring and stop_monitoring calls are made, no second
\* monitor loop runs next to the first, a loop runs exactly while is_monitoring
\* is set, and a start_monitoring call made while it is set starts no loop and
\* leaves the running one as it is
C37_StartIsIdempotent ==
    [][/\ monitor_task' # "several"
       /\ is_monitoring' <=> (monitor_task' = "active")
       /\ (is_monitoring /\ lastCall' # lastCall /\ lastCall'.op = "start") =>
             /\ ~lastCall'.returned.started
             /\ monitor_task' = monitor_task
             /\ is_monitoring']_vars

\* start_monitoring was called while monitoring was on: it started nothing, and
\* the one loop is in a tick on the rules it loaded
C37_SecondStartDidNothing ==
    /\ lastCall.op = "start"
    /\ ~lastCall.returned.started
    /\ is_monitoring
    /\ monitor_task = "active"
    /\ pc[1] = "checking"
    /\ Len(snapshot[1]) > 0

\* The row is the latest stored bar of its symbol and timeframe, the one whose
\* fields the calculation that follows an insert writes again
IsLatestBar(coll, d) ==
    \A j \in DOMAIN coll :
        (coll[j].symbol = d.symbol /\ coll[j].timeframe = d.timeframe) =>
            coll[j].timestamp <= d.timestamp

\* C38: an incremental tick leaves the moving averages of every stored bar that
\* had them in place, and the signals of every such bar but the latest, whose
\* signals the tick may compute again
C38_PopulatedFieldsKept ==
    [][IncrementalTick =>
          \A i \in DOMAIN klines :
              /\ i \in DOMAIN klines'
              /\ klines[i].ma # <<>> => klines'[i].ma # <<>>
              /\ (klines[i].signals # {} /\ ~IsLatestBar(klines', klines'[i])) =>
                    klines'[i].signals # {}]_vars

\* The timeframes of the list, in the list's order, that hold a bar of the symbol
\* whose close is above the threshold of the rules' condition
MatchingTimeframes(coll, rule) ==
    SelectSeq(rule.timeframes,
              LAMBDA tf : \E j \in DOMAIN coll :
                  /\ coll[j].symbol = rule.symbol
                  /\ coll[j].timeframe = tf
                  /\ coll[j].close > rule.trigger_conditions.value)

\* The entries of a tick's log that posted the webhook for the rule
PostsOf(lg, rid) == {k \in DOMAIN lg : lg[k].rule_id = rid /\ lg[k].posted}

\* C39: the check of a rule in a tick posts the webhook once at most, adds one
\* history record at most and raises trigger_count by one at most, however many
\* of the rule's timeframes hold a matching bar; the tick then holds one post
\* and one record of the rule at most, and the record carries the first
\* timeframe of the rule's list that has a matching bar
C39_OneTriggerPerTick ==
    [][(pc[1] = "checking" /\ idx[1] <= Len(snapshot[1]) /\ idx'[1] # idx[1]) =>
          LET rule == snapshot[1][idx[1]]
          IN  /\ Len(history') <= Len(history) + 1
              /\ \A i \in DOMAIN rules :
                    /\ rules'[i].trigger_count <= rules[i].trigger_count + 1
                    /\ rules[i].id # rule.id =>
                          rules'[i].trigger_count = rules[i].trigger_count
              /\ Cardinality(PostsOf(tickLog'[1], rule.id)) <= 1
              /\ CountIn(history', histStart[1] + 1, rule.id) <= 1
              /\ Len(history') > Len(history) =>
                    /\ history'[Len(history')].rule_id = rule.id
                    /\ MatchingTimeframes(klines, rule) # <<>>
                    /\ history'[Len(history')].timeframe =
                          MatchingTimeframes(klines, rule)[1]]_vars

\* A rule that lists two timeframes has triggered once while the store holds
\* matching bars of both, and its record carries the first timeframe of its list
C39_FirstListedTimeframeRecorded ==
    \E i \in DOMAIN rules :
        /\ Len(rules[i].timeframes) = 2
        /\ Len(MatchingTimeframes(klines, rules[i])) = 2
        /\ rules[i].trigger_count = 1
        /\ pc[1] = "checking"
        /\ Len(history) = histStart[1] + 1
        /\ history[Len(history)].rule_id = rules[i].id
        /\ history[Len(history)].timeframe = rules[i].timeframes[1]
        /\ Cardinality(PostsOf(tickLog[1], rules[i].id)) = 1

====
